---- MODULE Spec2Model ----
EXTENDS Integers, Sequences, FiniteSets, TLC

(***************************************************************************)
(* Flow execution engine of the e-mail campaign builder                    *)
(* (backend/app/services/flow_executor.py, event_tracker.py,               *)
(* background_tasks.py, tasks.py, api/tracking.py).                        *)
(*                                                                         *)
(* One campaign with one lead.  The lead document is the whole-document    *)
(* last-write-wins record of the store: every lead.save() writes the       *)
(* caller's in-memory copy over the stored document, every find_one()      *)
(* copies the stored document.  Each handler is a process; an atomic step  *)
(* of a process holds at most one write of the lead document, together     *)
(* with the reads and the local code that precede that write.              *)
(*                                                                         *)
(* The lead document carries the fields FlowExecutor.create_leads writes   *)
(* and the engine reads (completed_tasks, sent_emails, completed_waits,    *)
(* scheduled_task_id, lead_type = "original").                             *)
(*                                                                         *)
(* Processes: the API process runs coroutines that interleave at awaits    *)
(* (start_campaign/execute_lead, the tracking endpoint, the background     *)
(* task manager and its timeout task); the Celery worker runs one task at  *)
(* a time (start_worker.py --concurrency=1).                               *)
(***************************************************************************)

None == "none"

\* Bounds of the model.
MaxTimers == 2
MaxEvents == 3
MaxDispatch == 2
MaxIngress == 1
MaxRecoveries == 2
MaxLeads == 3
MaxCallbacks == 2
MaxStored == 3

Range(s) == {s[i] : i \in DOMAIN s}
Min(S) == CHOOSE x \in S : \A y \in S : x <= y
AppendNew(s, x) == IF x \in Range(s) THEN s ELSE Append(s, x)

(***************************************************************************)
(* Campaign graphs.                                                        *)
(***************************************************************************)
Node(i, t) == [id |-> i, type |-> t, config_ok |-> TRUE, conditionType |-> "open", links |-> FALSE]
Conn(f, t, ct) == [from_node |-> f, to_node |-> t, connection_type |-> ct, id_has |-> {}]

\* start -> action(send) -> end
GraphA ==
  [nodes |-> << Node("start", "start"), Node("send", "sendEmail"), Node("end", "end") >>,
   connections |-> << Conn("start", "send", "default"), Conn("send", "end", "default") >>,
   start_node |-> "start"]

\* start -> condition(open) -> {yes: action(bonus) -> end, no: wait -> end}
GraphB ==
  [nodes |-> << Node("start", "start"), Node("cond", "condition"), Node("bonus", "sendEmail"),
                Node("wait", "wait"), Node("end", "end") >>,
   connections |-> << Conn("start", "cond", "default"), Conn("cond", "bonus", "yes"),
                      Conn("cond", "wait", "no"), Conn("bonus", "end", "default"),
                      Conn("wait", "end", "default") >>,
   start_node |-> "start"]

\* start -> action(send) -> condition(open) -> {yes: action(bonus) -> end, no: wait -> end}
GraphC ==
  [nodes |-> << Node("start", "start"), Node("send", "sendEmail"), Node("cond", "condition"),
                Node("bonus", "sendEmail"), Node("wait", "wait"), Node("end", "end") >>,
   connections |-> << Conn("start", "send", "default"), Conn("send", "cond", "default"),
                      Conn("cond", "bonus", "yes"), Conn("cond", "wait", "no"),
                      Conn("bonus", "end", "default"), Conn("wait", "end", "default") >>,
   start_node |-> "start"]

\* start -> action(send), the send node without a successor; end unconnected
GraphD ==
  [nodes |-> << Node("start", "start"), Node("send", "sendEmail"), Node("end", "end") >>,
   connections |-> << Conn("start", "send", "default") >>,
   start_node |-> "start"]

Graphs == {GraphA, GraphB, GraphC, GraphD}

\* a start node without an outgoing connection; end unconnected
GraphStub ==
  [nodes |-> << Node("start", "start"), Node("end", "end") >>,
   connections |-> <<>>,
   start_node |-> "start"]

\* start -> action(send) -> condition(open) -> {yes: end, no: wait -> action(follow) -> end}
GraphE ==
  [nodes |-> << Node("start", "start"), Node("send", "sendEmail"), Node("cond", "condition"),
                Node("wait", "wait"), Node("follow", "sendEmail"), Node("end", "end") >>,
   connections |-> << Conn("start", "send", "default"), Conn("send", "cond", "default"),
                      Conn("cond", "end", "yes"), Conn("cond", "wait", "no"),
                      Conn("wait", "follow", "default"), Conn("follow", "end", "default") >>,
   start_node |-> "start"]

\* start -> action(send) -> condition(open) -> {yes: action(bonus) -> condition(open) ->
\* {yes: end, no: wait -> end}, no: wait -> end}
GraphF ==
  [nodes |-> << Node("start", "start"), Node("send", "sendEmail"), Node("cond", "condition"),
                Node("bonus", "sendEmail"), Node("cond2", "condition"),
                Node("wait", "wait"), Node("wait2", "wait"), Node("end", "end") >>,
   connections |-> << Conn("start", "send", "default"), Conn("send", "cond", "default"),
                      Conn("cond", "bonus", "yes"), Conn("cond", "wait", "no"),
                      Conn("bonus", "cond2", "default"),
                      Conn("cond2", "end", "yes"), Conn("cond2", "wait2", "no"),
                      Conn("wait", "end", "default"), Conn("wait2", "end", "default") >>,
   start_node |-> "start"]

\* GraphF with the second condition waiting for a click on a link of the bonus mail
GraphK ==
  [GraphF EXCEPT !.nodes[4] = [@ EXCEPT !.links = TRUE],
                 !.nodes[5] = [@ EXCEPT !.conditionType = "click"]]

\* Campaign definitions as the campaign API stores them unchecked: start -> action(send)
\* -> condition(open), the branches of the condition drawn from YesConns and NoConns
\* (a branch named by connection_type or only by the id of the connection, a branch to a
\* node that is not in the node list, two no connections), further connections drawn
\* from MoreConns (to end, back to send or start, from or to a missing node), a node
\* list with or without the wait or the end node, workflow.start_node set or missing.
ById(c, branch) == [c EXCEPT !.connection_type = "default", !.id_has = {branch}]

YesConns ==
  { <<>>, << Conn("cond", "end", "yes") >>, << ById(Conn("cond", "end", "yes"), "yes") >>,
    << Conn("cond", "ghost", "yes") >> }

NoConns ==
  { <<>>, << Conn("cond", "wait", "no") >>, << Conn("cond", "end", "no") >>,
    << Conn("cond", "end", "no"), Conn("cond", "wait", "no") >>,
    << Conn("cond", "wait", "no"), Conn("cond", "end", "no") >>,
    << ById(Conn("cond", "wait", "no"), "no") >>, << Conn("cond", "ghost", "no") >> }

MoreConns ==
  { <<>>, << Conn("wait", "end", "default") >>, << Conn("wait", "send", "default") >>,
    << Conn("wait", "end", "default"), Conn("end", "start", "default") >>,
    << Conn("wait", "end", "default"), Conn("ghost", "end", "default") >>,
    << Conn("wait", "ghost", "default") >>,
    << Conn("wait", "end", "default"), Conn("end", "end", "default") >> }

NodeLists ==
  { << Node("start", "start"), Node("send", "sendEmail"), Node("cond", "condition"),
       Node("wait", "wait"), Node("end", "end") >>,
    << Node("start", "start"), Node("send", "sendEmail"), Node("cond", "condition"),
       Node("wait", "wait") >>,
    << Node("start", "start"), Node("send", "sendEmail"), Node("cond", "condition"),
       Node("end", "end") >> }

StoredGraphs ==
  { [nodes |-> ns,
     connections |-> << Conn("start", "send", "default"), Conn("send", "cond", "default") >>
                     \o y \o n \o m,
     start_node |-> sn] :
      ns \in NodeLists, y \in YesConns, n \in NoConns, m \in MoreConns,
      sn \in {"start", None} }

\* The ids of the action nodes of the graphs
ActionNodes == {"send", "bonus", "follow"}

NodeIds(g) == {g.nodes[i].id : i \in DOMAIN g.nodes}
\* self.nodes = {node["id"]: node for node in campaign.nodes}
NodeOf(g, id) == g.nodes[CHOOSE i \in DOMAIN g.nodes :
                           /\ g.nodes[i].id = id
                           /\ \A j \in DOMAIN g.nodes : g.nodes[j].id = id => j <= i]
TypeOf(g, id) == IF id \in NodeIds(g) THEN NodeOf(g, id).type ELSE None

get_next_node_id(g, current_node_id, branch) ==
  LET cs == SelectSeq(g.connections, LAMBDA c : c.from_node = current_node_id)
      byType == SelectSeq(cs, LAMBDA c : c.connection_type = branch)
      byId == SelectSeq(cs, LAMBDA c : branch \in c.id_has)
  IN IF byType # <<>> THEN byType[1].to_node
     ELSE IF branch \in {"yes", "no"} /\ byId # <<>> THEN byId[1].to_node
     ELSE IF branch = "default" /\ cs # <<>> THEN cs[1].to_node
     ELSE None

RECURSIVE visit(_, _, _)
\* TRUE iff visit raises "Loop detected"
visit(g, node_id, visiting) ==
  IF node_id \in visiting THEN TRUE
  ELSE \E i \in DOMAIN g.connections :
          /\ g.connections[i].from_node = node_id
          /\ visit(g, g.connections[i].to_node, visiting \cup {node_id})

\* A loader that never finds a loop
detect_no_loops(g) == FALSE

detect_loops(g) == g.start_node # None /\ visit(g, g.start_node, {})

\* A search that returns the first sendEmail node of the campaign, connected or not
first_email_node(g, target_node_id, visited) ==
  LET mails == {i \in DOMAIN g.nodes : g.nodes[i].type = "sendEmail"}
  IN IF mails = {} THEN None ELSE g.nodes[Min(mails)].id

RECURSIVE find_preceding_email_node(_, _, _)
\* the id of the node returned, or None
find_preceding_email_node(g, target_node_id, visited) ==
  IF target_node_id \in visited THEN None
  ELSE
    LET vis == visited \cup {target_node_id}
        byNode(i) ==
          LET n == g.nodes[i] IN
            IF n.type = "sendEmail" /\ get_next_node_id(g, n.id, "default") = target_node_id
              THEN n.id
            ELSE IF n.type = "condition" /\ get_next_node_id(g, n.id, "default") = target_node_id
              THEN find_preceding_email_node(g, n.id, vis)
            ELSE None
        byConn(i) ==
          LET c == g.connections[i] IN
            IF c.to_node = target_node_id /\ c.from_node \in NodeIds(g)
              THEN IF TypeOf(g, c.from_node) = "sendEmail" THEN c.from_node
                   ELSE IF TypeOf(g, c.from_node) = "condition"
                     THEN find_preceding_email_node(g, c.from_node, vis)
                   ELSE None
            ELSE None
        hitsN == {i \in DOMAIN g.nodes : byNode(i) # None}
        hitsC == {i \in DOMAIN g.connections : byConn(i) # None}
    IN IF hitsN # {} THEN byNode(Min(hitsN))
       ELSE IF hitsC # {} THEN byConn(Min(hitsC))
       ELSE None

\* TRUE iff _validate_campaign_structure raises nothing
validate_campaign_structure(g) ==
  /\ \E i \in DOMAIN g.nodes : g.nodes[i].type = "start"
  /\ \E i \in DOMAIN g.nodes : g.nodes[i].type = "end"
  /\ \A i \in DOMAIN g.connections :
        /\ g.connections[i].from_node \in NodeIds(g)
        /\ g.connections[i].to_node \in NodeIds(g)

\* TRUE iff _validate_condition_nodes raises nothing
\* A validation that asks for both branches and never looks at the target of the no branch
validate_condition_nodes_any_target(g) ==
  /\ \A i \in DOMAIN g.nodes : g.nodes[i].type = "condition" =>
        /\ get_next_node_id(g, g.nodes[i].id, "yes") # None
        /\ get_next_node_id(g, g.nodes[i].id, "no") # None
        /\ find_preceding_email_node(g, g.nodes[i].id, {}) # None
  /\ validate_campaign_structure(g)

validate_condition_nodes(g) ==
  /\ \A i \in DOMAIN g.nodes : g.nodes[i].type = "condition" =>
        LET cid == g.nodes[i].id
            yes == get_next_node_id(g, cid, "yes")
            no == get_next_node_id(g, cid, "no")
            pre == find_preceding_email_node(g, cid, {})
        IN /\ yes # None
           /\ no # None
           /\ TypeOf(g, no) = "wait"
           /\ pre # None
           /\ g.nodes[i].conditionType \in {"open", "click"}
           /\ (g.nodes[i].conditionType = "click" => NodeOf(g, pre).links)
  /\ validate_campaign_structure(g)

(***************************************************************************)
(* State.                                                                  *)
(***************************************************************************)
VARIABLES
  graph,               \* the campaign definition (nodes, connections, workflow.start_node)
  campaign,            \* CampaignModel.status
  db,                  \* the stored LeadModel document (NoLead before create_leads)
  others,              \* the status of each further lead of the campaign (their flows are not followed)
  gathered,            \* the further leads whose execute_lead call in start_campaign's gather has returned
  events,              \* the stored LeadEvent documents, in created_at order
  timers,              \* resume_lead_task ETA tasks: timers[k] \in {"pending", "revoked", "fired"}
  passed,              \* the timer ids k whose eta (= wait_until) lies in the past
  queue,               \* the broker's queue of ready Celery tasks
  emailed,             \* an e-mail with its tracking token has been delivered
  proc,                \* the running handlers: position and in-memory copies
  dispatched,          \* number of send_email_task.delay requests per node
  took,                \* branch transitions made: "no" (timer resume out of the wait), "yes" (event resume)
  global_email_sends,  \* FlowExecutor._global_email_sends of the API process
  armed,               \* BackgroundTaskManager.timeout_tasks: the wait_until its task sleeps to, or 0
  recoveries,          \* number of resumes started by the recovery sweeps
  left                 \* the stored lead as it was when the last resume_lead call returned

vars == << graph, campaign, db, others, gathered, events, timers, passed, queue, emailed, proc, dispatched, took,
           global_email_sends, armed, recoveries, left >>

NoLead ==
  [status |-> "absent", current_node |-> None, next_node |-> None, wait_until |-> 0,
   scheduled_task_id |-> 0, completed_tasks |-> <<>>, sent_emails |-> <<>>,
   completed_waits |-> <<>>, execution_path |-> <<>>, error_message |-> None]

\* LeadModel(...) in create_leads
NewLead(g) ==
  [NoLead EXCEPT !.status = "pending", !.current_node = g.start_node,
                 !.execution_path = << g.start_node >>]

NoRes == [status |-> None, next_node |-> None]

IdleProc ==
  [pc |-> "idle", lead |-> NoLead, cur |-> None, res |-> NoRes,
   ret |-> None, cond |-> None, ev |-> 0, phase |-> None, req |-> None]

ExecP == << "exec", 0 >>
WorkerP == << "worker", 0 >>
BgP == << "bg", 0 >>
TmoP == << "tmo", 0 >>
IngressPs == {<< "ingress", i >> : i \in 1..MaxCallbacks}
\* The tracking requests that are served one after the other
SerialIngressPs == {<< "ingress", i >> : i \in 1..MaxIngress}
ApiPs == {ExecP, BgP, TmoP} \cup IngressPs
Procs == ApiPs \cup {WorkerP}

Task(t, n) == [task |-> t, node_id |-> n]

InitWith(gs) ==
  /\ graph \in gs
  /\ campaign = "ready"
  /\ db = NoLead
  /\ others = <<>>
  /\ gathered = {}
  /\ events = <<>>
  /\ timers = <<>>
  /\ passed = {}
  /\ queue = <<>>
  /\ emailed = FALSE
  /\ proc = [p \in Procs |-> IdleProc]
  /\ dispatched = [n \in ActionNodes |-> 0]
  /\ took = {}
  /\ global_email_sends = {}
  /\ armed = 0
  /\ recoveries = 0
  /\ left = NoLead

Init == InitWith(Graphs)

\* Campaigns as stored, before start_campaign has looked at them
InitStored == InitWith(Graphs \cup StoredGraphs)

\* The campaigns of the runs with the recovery sweeps
InitRecovery == InitWith(Graphs \cup {GraphE})

\* _check_campaign_completion: the campaign status it leaves, given the stored lead
\* A check that never counts the leads
complete_when_none_active(c, lead) ==
  IF lead.status \in {"running", "paused", "pending"}
       \/ \E i \in DOMAIN others : others[i] \in {"running", "paused", "pending"}
  THEN c ELSE "completed"

\* the same, given the statuses oth of the further leads
campaign_completion_over(c, lead, oth) ==
  LET all_leads == (IF lead.status = "absent" THEN <<>> ELSE << lead.status >>) \o oth
      active_leads == {i \in DOMAIN all_leads : all_leads[i] \in {"running", "paused", "pending"}}
  IN IF active_leads = {}
     THEN IF Len(all_leads) > 0 /\ c # "completed" THEN "completed" ELSE c
     ELSE c

check_campaign_completion(c, lead) == campaign_completion_over(c, lead, others)

\* The process after its resume_lead call returned: the timeout task of the background
\* manager still has to remove itself from timeout_tasks
EndResumeLead(p) ==
  IF p = TmoP THEN [IdleProc EXCEPT !.pc = "tm_done"] ELSE IdleProc

\* The process after a resume_lead_from_condition call returned: process_event's direct
\* call is followed by the call of the tracking endpoint
EndResumeFromCondition(p, pr) ==
  IF p \in IngressPs /\ pr.phase = "direct"
    THEN [IdleProc EXCEPT !.pc = "cf_load", !.cond = pr.cond, !.phase = "endpoint"]
    ELSE IdleProc

\* What the caller does when _execute_flow_from_current_node returns
AfterFlow(p, pr) ==
  CASE pr.ret = "exec" -> [IdleProc EXCEPT !.pc = "sc_check"]
    [] pr.ret = "rl" -> [IdleProc EXCEPT !.pc = "rl_check", !.ev = pr.ev]
    [] pr.ret = "rh" -> [IdleProc EXCEPT !.pc = "rh_fail", !.lead = pr.lead, !.ev = pr.ev,
                                         !.phase = pr.phase]
    [] OTHER -> EndResumeFromCondition(p, pr)

\* Entering _execute_flow_from_current_node(lead)
EnterFlow(pr, lead, ret) ==
  [pr EXCEPT !.pc = "fl_head", !.lead = lead, !.cur = lead.current_node, !.ret = ret,
             !.res = NoRes]

(***************************************************************************)
(* _execute_flow_from_current_node and the node handlers                   *)
(***************************************************************************)
InApi(p) == p \in ApiPs

Result(st, nx) == [status |-> st, next_node |-> nx]

\* The outcome of a step: the process, the stored lead, the lock set, the campaign status
Outcome(pr, lead, locks, c) == [pr |-> pr, db |-> lead, locks |-> locks, campaign |-> c]

\* _mark_node_as_executing, applied to the freshly loaded document and saved
mark_node_as_executing(fresh_lead, node_id) ==
  [fresh_lead EXCEPT !.completed_tasks = AppendNew(@, node_id),
                     !.execution_path = AppendNew(@, node_id),
                     !.current_node = node_id]

\* The node handler up to its first store access, on the caller's copy of the lead
HandlerEntry(p, pr, locks) ==
  LET l == pr.lead
      n == pr.cur
      t == TypeOf(graph, n)
      nx == get_next_node_id(graph, n, "default")
      done(r) == [pr EXCEPT !.pc = "fl_post", !.res = r]
      go(pc) == [pr EXCEPT !.pc = pc]
  IN CASE t = "start" -> done(Result("completed", nx))
       [] t = "sendEmail" ->
            IF ~NodeOf(graph, n).config_ok THEN done(Result("failed", None))
            ELSE IF n \in Range(l.sent_emails) THEN done(Result("completed", nx))
            ELSE IF InApi(p) /\ n \in locks THEN done(Result("completed", nx))
            ELSE go("se_save")
       [] t = "wait" ->
            IF ~NodeOf(graph, n).config_ok THEN done(Result("failed", None))
            ELSE IF nx = None THEN done(Result("failed", None))
            ELSE IF n \in Range(l.completed_waits) THEN done(Result("completed", nx))
            ELSE go("w_sched")
       [] t = "condition" ->
            IF find_preceding_email_node(graph, n, {}) = None
              THEN done(Result("failed", None))
            ELSE go("c_check")
       [] t = "end" -> done(Result("flow_completed", None))
       [] OTHER -> done(Result("failed", None))

\* The short-cut taken for no node
never_completed(lead, node_id) == FALSE

\* _execute_single_node: "if node_id in lead.completed_tasks"
already_completed(lead, node_id) == node_id \in Range(lead.completed_tasks)

\* One pass of the loop of _execute_flow_from_current_node up to the node handler: the
\* loop condition, the fresh status check, the completed_tasks / completed_waits
\* short-cuts of _execute_single_node, _mark_node_as_executing, the handler's entry
flow_iteration(p, pr, stored, locks, c) ==
  LET l == pr.lead
      n == pr.cur
  IN IF n = None \/ l.status # "running" \/ stored.status # "running"
       THEN Outcome(AfterFlow(p, pr), stored, locks, c)
     ELSE IF n \notin NodeIds(graph)
       THEN Outcome([pr EXCEPT !.pc = "fl_post", !.res = Result("failed", None)],
                    stored, locks, c)
     ELSE IF already_completed(l, n)
             \/ (TypeOf(graph, n) = "wait" /\ n \in Range(l.completed_waits))
       THEN Outcome([pr EXCEPT !.pc = "fl_post",
                               !.res = Result("completed",
                                              get_next_node_id(graph, n, "default"))],
                    stored, locks, c)
     ELSE LET saved == mark_node_as_executing(stored, n)
              nxt == HandlerEntry(p, pr, locks)
          IN Outcome(nxt, saved,
                     IF nxt.pc = "se_save" /\ InApi(p) THEN locks \cup {n} ELSE locks,
                     IF nxt.res.status = "flow_completed"
                       THEN check_campaign_completion(c, saved) ELSE c)

\* After _execute_single_node: the fresh paused check, then the branch on the result with
\* its save
flow_result(p, pr, stored, locks, c) ==
  LET r == pr.res
      l == pr.lead
      ended(lead) == AfterFlow(p, [pr EXCEPT !.lead = lead])
  IN IF stored.status = "paused" THEN Outcome(AfterFlow(p, pr), stored, locks, c)
     ELSE CASE r.status = "completed" ->
                 IF r.next_node = None THEN Outcome(AfterFlow(p, pr), stored, locks, c)
                 ELSE LET moved == [l EXCEPT !.current_node = r.next_node] IN
                        Outcome([pr EXCEPT !.pc = "fl_head", !.cur = r.next_node,
                                           !.lead = moved, !.res = NoRes],
                                moved, locks, c)
            [] r.status = "paused" ->
                 LET s == [l EXCEPT !.status = "paused"] IN
                   Outcome(ended(s), s, locks, c)
            [] r.status = "failed" ->
                 LET s == [l EXCEPT !.status = "failed", !.error_message = "node"] IN
                   Outcome(ended(s), s, locks, c)
            [] OTHER ->
                 LET s == [l EXCEPT !.status = "completed"] IN
                   Outcome(ended(s), s, locks, check_campaign_completion(c, s))

\* The history of resume_lead calls is void once the stored lead differs from it
Kept(lead) == IF lead = left THEN left ELSE NoLead

\* The step leaves the process, the stored lead, the locks and the campaign as in o
Becomes(p, o) ==
  /\ proc' = [proc EXCEPT ![p] = o.pr]
  /\ db' = o.db
  /\ left' = Kept(o.db)
  /\ global_email_sends' = o.locks
  /\ campaign' = o.campaign

(***************************************************************************)
(* start_campaign and execute_lead                                         *)
(***************************************************************************)
\* A start that creates the lead before anything is validated or parsed
start_campaign_leads_first ==
  /\ campaign = "ready"
  /\ proc[ExecP].pc = "idle"
  /\ db' = NewLead(graph)
  /\ campaign' = IF detect_loops(graph) \/ ~validate_condition_nodes(graph)
                  THEN "failed" ELSE "running"
  /\ proc' = IF campaign' = "failed" THEN proc
              ELSE [proc EXCEPT ![ExecP] =
                      [IdleProc EXCEPT !.pc = "el_start", !.lead = NewLead(graph)]]
  /\ left' = Kept(db')
  /\ UNCHANGED << graph, others, gathered, events, timers, passed, queue, emailed, dispatched, took,
                  global_email_sends, armed, recoveries >>

start_campaign ==
  /\ campaign = "ready"
  /\ proc[ExecP].pc = "idle"
  /\ IF detect_loops(graph) \/ ~validate_condition_nodes(graph)
       THEN /\ campaign' = "failed"
            /\ UNCHANGED << db, proc >>
       ELSE \E contacts \in {"invalid", "empty", "one"} :
              CASE contacts = "invalid" ->
                     campaign' = "failed" /\ UNCHANGED << db, proc >>
                [] contacts = "empty" ->
                     campaign' = "completed" /\ UNCHANGED << db, proc >>
                [] contacts = "one" /\ graph.start_node = None ->
                     campaign' = "failed" /\ UNCHANGED << db, proc >>
                [] OTHER ->
                     /\ campaign' = "running"
                     /\ db' = NewLead(graph)
                     /\ proc' = [proc EXCEPT ![ExecP] =
                                   [IdleProc EXCEPT !.pc = "el_start", !.lead = NewLead(graph)]]
  /\ UNCHANGED << graph, others, gathered, events, timers, passed, queue, emailed, dispatched, took,
                  global_email_sends, armed, recoveries >>
  /\ left' = Kept(db')

\* execute_lead: pending -> running, saved by _update_lead_status
execute_lead_start(p) ==
  /\ proc[p].pc = "el_start"
  /\ LET l == [proc[p].lead EXCEPT !.status = "running"] IN
       /\ db' = l
       /\ proc' = [proc EXCEPT ![p] = [@ EXCEPT !.pc = "el_reload", !.lead = l]]
  /\ UNCHANGED << graph, others, gathered, campaign, events, timers, passed, queue, emailed, dispatched, took,
                  global_email_sends, armed, recoveries >>
  /\ left' = Kept(db')

\* execute_lead: reload, then _execute_flow_from_current_node
execute_lead_reload(p) ==
  /\ proc[p].pc = "el_reload"
  /\ Becomes(p, flow_iteration(p, EnterFlow(proc[p], db, "exec"), db, global_email_sends,
                               campaign))
  /\ UNCHANGED << graph, others, gathered, events, timers, passed, queue, emailed, dispatched, took, armed,
                  recoveries >>

\* start_campaign once every execute_lead call of the gather has returned:
\* _check_campaign_completion
start_campaign_check(p) ==
  /\ proc[p].pc = "sc_check"
  /\ gathered = DOMAIN others
  /\ campaign' = check_campaign_completion(campaign, db)
  /\ proc' = [proc EXCEPT ![p] = IdleProc]
  /\ UNCHANGED << graph, others, gathered, db, events, timers, passed, queue, emailed, dispatched, took,
                  global_email_sends, armed, recoveries, left >>

\* start_campaign with a contact file of MaxLeads contacts: create_leads, the campaign
\* running, then the gather of the execute_lead calls
start_campaign_many ==
  /\ campaign = "ready"
  /\ proc[ExecP].pc = "idle"
  /\ ~detect_loops(graph) /\ validate_condition_nodes(graph)
  /\ graph.start_node # None
  /\ campaign' = "running"
  /\ db' = NewLead(graph)
  /\ others' = [i \in 1..(MaxLeads - 1) |-> "pending"]
  /\ proc' = [proc EXCEPT ![ExecP] =
                [IdleProc EXCEPT !.pc = "el_start", !.lead = NewLead(graph)]]
  /\ left' = Kept(db')
  /\ UNCHANGED << graph, gathered, events, timers, passed, queue, emailed, dispatched, took,
                  global_email_sends, armed, recoveries >>

\* A gather in which the calls still to be made are dropped once a lead has failed
execute_lead_sibling_cancelled(i) ==
  /\ i \in DOMAIN others \ gathered
  /\ others[i] = "pending"
  /\ IF db.status = "failed"
       THEN gathered' = gathered \cup {i} /\ others' = others
       ELSE gathered' = gathered /\ others' = [others EXCEPT ![i] = "running"]
  /\ UNCHANGED << graph, campaign, db, events, timers, passed, queue, emailed, proc, dispatched,
                  took, global_email_sends, armed, recoveries, left >>

\* execute_lead of a further lead of the gather: pending -> running, or failed at once
\* for a lead without an email address
execute_lead_sibling(i) ==
  /\ i \in DOMAIN others \ gathered
  /\ others[i] = "pending"
  /\ \/ gathered' = gathered /\ others' = [others EXCEPT ![i] = "running"]
     \/ gathered' = gathered \cup {i} /\ others' = [others EXCEPT ![i] = "failed"]
  /\ UNCHANGED << graph, campaign, db, events, timers, passed, queue, emailed, proc, dispatched,
                  took, global_email_sends, armed, recoveries, left >>

\* The flow of a further lead up to its return: the lead paused, failed, or completed
\* with the completion check
flow_sibling(i) ==
  /\ i \in DOMAIN others \ gathered
  /\ others[i] = "running"
  /\ \E st \in {"paused", "failed", "completed"} :
       /\ others' = [others EXCEPT ![i] = st]
       /\ campaign' = IF st = "completed" THEN campaign_completion_over(campaign, db, others')
                      ELSE campaign
  /\ gathered' = gathered \cup {i}
  /\ UNCHANGED << graph, db, events, timers, passed, queue, emailed, proc, dispatched,
                  took, global_email_sends, armed, recoveries, left >>

(***************************************************************************)
(* The steps of the flow loop                                              *)
(***************************************************************************)
\* the next pass of the loop
flow_loop(p) ==
  /\ proc[p].pc = "fl_head"
  /\ Becomes(p, flow_iteration(p, proc[p], db, global_email_sends, campaign))
  /\ UNCHANGED << graph, others, gathered, events, timers, passed, queue, emailed, dispatched, took, armed,
                  recoveries >>

\* the result of a node that left the loop's copy as it was
flow_after_node(p) ==
  /\ proc[p].pc = "fl_post"
  /\ Becomes(p, flow_result(p, proc[p], db, global_email_sends, campaign))
  /\ UNCHANGED << graph, others, gathered, events, timers, passed, queue, emailed, dispatched, took, armed,
                  recoveries >>

\* _execute_send_email_node: sent_emails.append, status paused, lead.save()
send_email_node_save(p) ==
  /\ proc[p].pc = "se_save"
  /\ LET pr == proc[p]
         l == [pr.lead EXCEPT !.sent_emails = Append(@, pr.cur), !.status = "paused"]
     IN /\ db' = l
        /\ proc' = [proc EXCEPT ![p] = [pr EXCEPT !.pc = "se_dispatch", !.lead = l]]
  /\ UNCHANGED << graph, others, gathered, campaign, events, timers, passed, queue, emailed, dispatched, took,
                  global_email_sends, armed, recoveries >>
  /\ left' = Kept(db')

\* _execute_send_email_node: send_email_task.delay(...), the locks released in finally,
\* result "paused" handed to the loop
send_email_node_dispatch(p) ==
  /\ proc[p].pc = "se_dispatch"
  /\ dispatched[proc[p].cur] < MaxDispatch
  /\ LET pr == proc[p] IN
       /\ dispatched' = [dispatched EXCEPT ![pr.cur] = @ + 1]
       /\ queue' = Append(queue, Task("send_email_task", pr.cur))
       /\ Becomes(p, flow_result(p, [pr EXCEPT !.res = Result("paused", None)], db,
                                 IF InApi(p) THEN global_email_sends \ {pr.cur}
                                 ELSE global_email_sends,
                                 campaign))
  /\ UNCHANGED << graph, others, gathered, events, timers, passed, emailed, took, armed, recoveries >>

\* A wait node that saves the lead before the timer task exists
wait_node_schedule_unrecorded(p) ==
  /\ proc[p].pc = "w_sched"
  /\ Len(timers) < MaxTimers
  /\ LET pr == proc[p]
         k == Len(timers) + 1
         l == [pr.lead EXCEPT !.completed_waits = Append(@, pr.cur),
                              !.next_node = get_next_node_id(graph, pr.cur, "default"),
                              !.wait_until = k, !.status = "paused"]
     IN /\ timers' = Append(timers, "pending")
        /\ db' = l
        /\ proc' = [proc EXCEPT ![p] = [pr EXCEPT !.pc = "fl_post", !.lead = l,
                                                  !.res = Result("paused", None)]]
  /\ UNCHANGED << graph, others, gathered, campaign, events, passed, queue, emailed, dispatched, took,
                  global_email_sends, armed, recoveries >>
  /\ left' = Kept(db')

\* _execute_wait_node: resume_lead_task scheduled at eta, then lead.save()
wait_node_schedule(p) ==
  /\ proc[p].pc = "w_sched"
  /\ Len(timers) < MaxTimers
  /\ LET pr == proc[p]
         k == Len(timers) + 1
         l == [pr.lead EXCEPT !.completed_waits = Append(@, pr.cur),
                              !.next_node = get_next_node_id(graph, pr.cur, "default"),
                              !.wait_until = k, !.status = "paused",
                              !.scheduled_task_id = k]
     IN /\ timers' = Append(timers, "pending")
        /\ db' = l
        /\ proc' = [proc EXCEPT ![p] = [pr EXCEPT !.pc = "fl_post", !.lead = l,
                                                  !.res = Result("paused", None)]]
  /\ UNCHANGED << graph, others, gathered, campaign, events, passed, queue, emailed, dispatched, took,
                  global_email_sends, armed, recoveries >>
  /\ left' = Kept(db')

EventType(g, n) == IF NodeOf(g, n).conditionType = "open" THEN "email_open" ELSE "link_click"

\* An event found whatever is stored
always_existing_event(evs, event_type) == TRUE

\* EventTracker.check_existing_event
check_existing_event(evs, event_type) ==
  \E i \in DOMAIN evs : evs[i].processed /\ evs[i].event_type = event_type

\* _execute_condition_node: the check for an event that already occurred is made with the
\* conditionType ("open"), the waiting event is created with the event type
\* ("email_open").  The check returns a bool, and the yes branch reads
\* existing_event.event_type of it: the AttributeError is caught and the node fails.
\* Otherwise a waiting event is created and the lead continues on the no path.
condition_node(p) ==
  /\ proc[p].pc = "c_check"
  /\ LET pr == proc[p]
         no == get_next_node_id(graph, pr.cur, "no")
     IN IF check_existing_event(events, NodeOf(graph, pr.cur).conditionType)
          THEN /\ proc' = [proc EXCEPT ![p] =
                    [pr EXCEPT !.pc = "fl_post", !.res = Result("failed", None)]]
               /\ UNCHANGED events
          ELSE /\ Len(events) < MaxEvents
               /\ events' = Append(events, [condition_node_id |-> pr.cur,
                                            event_type |-> EventType(graph, pr.cur),
                                            target_url |-> None,
                                            processed |-> FALSE, returned |-> 0])
               /\ proc' = [proc EXCEPT ![p] =
                    [pr EXCEPT !.pc = "fl_post",
                               !.res = IF no = None THEN Result("failed", None)
                                       ELSE Result("completed", no)]]
  /\ UNCHANGED << graph, others, gathered, campaign, db, timers, passed, queue, emailed, dispatched, took,
                  global_email_sends, armed, recoveries, left >>

(***************************************************************************)
(* FlowExecutor.resume_lead                                                *)
(***************************************************************************)
\* A resume_lead call that nothing asks for: the stored lead is as the last finished
\* resume_lead call left it, and no deadline of the lead has come due since
Second(due) == left.status # "absent" /\ db = left /\ ~due

\* The process record a resume_lead call starts from
Call(k, due) == [IdleProc EXCEPT !.ev = k, !.phase = IF Second(due) THEN "replay" ELSE None]

\* The history after a resume_lead_task that returned at the load of resume_lead
LeftAtLoad ==
  IF "SWITCHED_TO_YES" \notin Range(db.execution_path) /\ db.status \in {"completed", "failed"}
    THEN db ELSE left

\* resume_lead without its check of the status
resume_lead_load_unchecked(p, pr) ==
  IF db.status = "absent" THEN EndResumeLead(p)
  ELSE [pr EXCEPT !.pc = "rl_save_running", !.lead = db]

\* resume_lead: the lead is loaded; nothing is done for a missing or terminal lead
resume_lead_load(p, pr) ==
  IF db.status \in {"absent", "completed", "failed"} THEN EndResumeLead(p)
  ELSE [pr EXCEPT !.pc = "rl_save_running", !.lead = db]

\* resume_lead: pause state cleared and status running saved; then the strategy by the
\* type of the node the lead was at
resume_lead_save_running(p) ==
  /\ proc[p].pc = "rl_save_running"
  /\ LET pr == proc[p]
         paused_node_id == pr.lead.current_node
         t == TypeOf(graph, paused_node_id)
         l == [pr.lead EXCEPT !.wait_until = 0, !.scheduled_task_id = 0,
                              !.status = "running"]
         nx == IF t = "wait" THEN l.next_node
               ELSE get_next_node_id(graph, paused_node_id, "default")
         moved == [l EXCEPT !.current_node = nx,
                            !.next_node = IF t = "wait" THEN None ELSE @]
     IN /\ db' = l
        /\ proc' = [proc EXCEPT ![p] =
             CASE t = None ->
                    [pr EXCEPT !.pc = "rl_save_status", !.lead = l, !.cur = paused_node_id,
                               !.res = Result("failed", None)]
               [] t = "condition" ->
                    [pr EXCEPT !.pc = "rh_reload", !.lead = l, !.cur = paused_node_id]
               [] t = "wait" /\ nx = None ->
                    [pr EXCEPT !.pc = "rl_save_status", !.lead = l, !.cur = paused_node_id,
                               !.res = Result("failed", None)]
               [] t # "wait" /\ nx = None ->
                    [pr EXCEPT !.pc = "rl_save_status", !.lead = l, !.cur = paused_node_id,
                               !.res = Result("completed", None)]
               [] OTHER ->
                    [pr EXCEPT !.pc = "rl_save_cur", !.lead = moved, !.cur = paused_node_id]]
  /\ UNCHANGED << graph, others, gathered, campaign, events, timers, passed, queue, emailed, dispatched, took,
                  global_email_sends, armed, recoveries >>
  /\ left' = Kept(db')

\* resume_lead: lead.current_node = next node, lead.save(), then the flow continues
resume_lead_save_current(p) ==
  /\ proc[p].pc = "rl_save_cur"
  /\ LET pr == proc[p] IN
       /\ db' = pr.lead
       /\ took' = IF TypeOf(graph, pr.cur) = "wait" THEN took \cup {"no"} ELSE took
       /\ proc' = [proc EXCEPT ![p] = EnterFlow(pr, pr.lead, "rl")]
  /\ UNCHANGED << graph, others, gathered, campaign, events, timers, passed, queue, emailed, dispatched,
                  global_email_sends, armed, recoveries >>
  /\ left' = Kept(db')

\* resume_lead: _update_lead_status(lead, "failed" | "completed", ...) and return
resume_lead_save_status(p) ==
  /\ proc[p].pc = "rl_save_status"
  /\ LET pr == proc[p]
         l == [pr.lead EXCEPT !.status = pr.res.status,
                              !.error_message = IF pr.res.status = "failed" THEN "resume"
                                                ELSE @]
     IN /\ db' = l
        /\ left' = l
        /\ proc' = [proc EXCEPT ![p] = EndResumeLead(p)]
  /\ UNCHANGED << graph, others, gathered, campaign, events, timers, passed, queue, emailed, dispatched, took,
                  global_email_sends, armed, recoveries >>

\* resume_lead: _check_campaign_completion after the flow returned
resume_lead_check(p) ==
  /\ proc[p].pc = "rl_check"
  /\ campaign' = check_campaign_completion(campaign, db)
  /\ left' = db
  /\ proc' = [proc EXCEPT ![p] = EndResumeLead(p)]
  /\ UNCHANGED << graph, others, gathered, db, events, timers, passed, queue, emailed, dispatched, took,
                  global_email_sends, armed, recoveries >>

\* resume_lead, exception handler: the lead is reloaded and, unless completed, the flow
\* is run from its current node
resume_lead_handler_reload(p) ==
  /\ proc[p].pc = "rh_reload"
  /\ Becomes(p, IF db.status # "completed"
                  THEN flow_iteration(p, EnterFlow(proc[p], db, "rh"), db,
                                      global_email_sends, campaign)
                  ELSE Outcome([proc[p] EXCEPT !.pc = "rh_fail", !.lead = db], db,
                               global_email_sends, campaign))
  /\ UNCHANGED << graph, others, gathered, events, timers, passed, queue, emailed, dispatched, took, armed,
                  recoveries >>

\* resume_lead, exception handler: _update_lead_status(lead, "failed", "Resume failed")
resume_lead_handler_fail(p) ==
  /\ proc[p].pc = "rh_fail"
  /\ LET l == [proc[p].lead EXCEPT !.status = "failed", !.error_message = "resume"]
     IN /\ db' = l
        /\ left' = l
        /\ proc' = [proc EXCEPT ![p] = EndResumeLead(p)]
  /\ UNCHANGED << graph, others, gathered, campaign, events, timers, passed, queue, emailed, dispatched, took,
                  global_email_sends, armed, recoveries >>

(***************************************************************************)
(* Celery worker: send_email_task, resume_lead_task, the ETA timers        *)
(***************************************************************************)
HasProcessedEvent == \E i \in DOMAIN events : events[i].processed

\* The mail task without "resume_lead_task.delay(...)"
send_email_task_no_resume ==
  /\ proc[WorkerP].pc = "idle"
  /\ queue # <<>>
  /\ Head(queue).task = "send_email_task"
  /\ emailed' = TRUE
  /\ queue' = Tail(queue)
  /\ UNCHANGED << graph, others, gathered, campaign, db, events, timers, passed, proc, dispatched, took,
                  global_email_sends, armed, recoveries, left >>

\* send_email_task: the mail is sent and the continuation queued, or sending raises
send_email_task ==
  /\ proc[WorkerP].pc = "idle"
  /\ queue # <<>>
  /\ Head(queue).task = "send_email_task"
  /\ \E sent \in BOOLEAN :
       IF sent
         THEN /\ emailed' = TRUE
              /\ queue' = Append(Tail(queue), Task("resume_lead_task", "skip_event_check"))
         ELSE /\ queue' = Tail(queue)
              /\ UNCHANGED emailed
  /\ UNCHANGED << graph, others, gathered, campaign, db, events, timers, passed, proc, dispatched, took,
                  global_email_sends, armed, recoveries, left >>

\* resume_lead_task after its event check: a running lead and a lead marked
\* "SWITCHED_TO_YES" are left alone, otherwise FlowExecutor.resume_lead
resume_lead_task(p, pr) ==
  IF db.status = "running" THEN IdleProc
  ELSE IF "SWITCHED_TO_YES" \in Range(db.execution_path) THEN IdleProc
  ELSE resume_lead_load(p, pr)

\* resume_lead_task(skip_event_check=True), queued by send_email_task
resume_lead_task_after_email ==
  /\ proc[WorkerP].pc = "idle"
  /\ queue # <<>>
  /\ Head(queue).task = "resume_lead_task"
  /\ queue' = Tail(queue)
  /\ proc' = [proc EXCEPT ![WorkerP] = resume_lead_task(WorkerP, IdleProc)]
  /\ left' = LeftAtLoad
  /\ UNCHANGED << graph, others, gathered, campaign, db, events, timers, passed, emailed, dispatched, took,
                  global_email_sends, armed, recoveries >>

\* The outcomes of the event check of resume_lead_task: the latest processed event is
\* younger than ten seconds or not; it is younger while the tracking request that
\* processed it, which lasts seconds, is under way
RecentEvent ==
  IF \E p \in IngressPs : proc[p].pc # "idle" THEN {HasProcessedEvent}
  ELSE {HasProcessedEvent, FALSE}

\* resume_lead_task scheduled by a wait node runs at its eta; it returns if the latest
\* processed event is younger than ten seconds
resume_lead_task_at_eta(k) ==
  /\ proc[WorkerP].pc = "idle"
  /\ k \in DOMAIN timers
  /\ timers[k] = "pending"
  /\ k \in passed
  /\ timers' = [timers EXCEPT ![k] = "fired"]
  /\ \E recent \in RecentEvent :
       /\ proc' = [proc EXCEPT ![WorkerP] =
                     IF recent THEN IdleProc
                     ELSE resume_lead_task(WorkerP, Call(k, db.wait_until = k))]
       /\ left' = IF recent THEN left ELSE LeftAtLoad
  /\ UNCHANGED << graph, others, gathered, campaign, db, events, passed, queue, emailed, dispatched, took,
                  global_email_sends, armed, recoveries >>

(***************************************************************************)
(* FlowExecutor.resume_lead_from_condition                                 *)
(***************************************************************************)
\* EventTracker.clear_waiting_events
clear_waiting_events(evs, condition_node_id) ==
  [i \in DOMAIN evs |->
     IF evs[i].condition_node_id = condition_node_id THEN [evs[i] EXCEPT !.processed = TRUE]
     ELSE evs[i]]

\* resume_lead_from_condition: the lead is loaded, nothing is done for a missing or
\* terminal lead; otherwise the waiting events of the condition node are cleared
resume_from_condition_load(p) ==
  /\ proc[p].pc = "cf_load"
  /\ LET pr == proc[p] IN
       IF db.status \in {"absent", "completed", "failed"}
            \/ TypeOf(graph, pr.cond) # "condition"
         THEN /\ proc' = [proc EXCEPT ![p] = EndResumeFromCondition(p, pr)]
              /\ UNCHANGED events
         ELSE /\ events' = clear_waiting_events(events, pr.cond)
              /\ proc' = [proc EXCEPT ![p] =
                   [pr EXCEPT !.pc = IF db.scheduled_task_id # 0 THEN "cf_revoke"
                                     ELSE "cf_pause",
                              !.lead = db]]
  /\ UNCHANGED << graph, others, gathered, campaign, db, timers, passed, queue, emailed, dispatched, took,
                  global_email_sends, armed, recoveries, left >>

\* celery_app.control.revoke(task_id, terminate=True): a pending task is discarded by the
\* worker; a task that is executing is terminated, unless it ends before the signal
RevokeOutcomes(p, k) ==
  IF k \notin DOMAIN timers THEN {<< timers, proc >>}
  ELSE IF timers[k] = "pending" THEN {<< [timers EXCEPT ![k] = "revoked"], proc >>}
  ELSE IF timers[k] = "fired" /\ p # WorkerP /\ proc[WorkerP].pc # "idle"
          /\ proc[WorkerP].ev = k
    THEN {<< timers, proc >>, << timers, [proc EXCEPT ![WorkerP] = IdleProc] >>}
  ELSE {<< timers, proc >>}

\* resume_lead_from_condition: the scheduled task is revoked, scheduled_task_id cleared,
\* lead.save()
resume_from_condition_revoke(p) ==
  /\ proc[p].pc = "cf_revoke"
  /\ LET l == [proc[p].lead EXCEPT !.scheduled_task_id = 0] IN
       /\ db' = l
       /\ \E o \in RevokeOutcomes(p, proc[p].lead.scheduled_task_id) :
            /\ timers' = o[1]
            /\ proc' = [o[2] EXCEPT ![p] = [@ EXCEPT !.pc = "cf_pause", !.lead = l]]
  /\ UNCHANGED << graph, others, gathered, campaign, events, passed, queue, emailed, dispatched, took,
                  global_email_sends, armed, recoveries >>
  /\ left' = Kept(db')

\* resume_lead_from_condition: lead.status = "paused", lead.save()
resume_from_condition_pause(p) ==
  /\ proc[p].pc = "cf_pause"
  /\ LET l == [proc[p].lead EXCEPT !.status = "paused"] IN
       /\ db' = l
       /\ proc' = [proc EXCEPT ![p] = [@ EXCEPT !.pc = "cf_switch", !.lead = l]]
  /\ UNCHANGED << graph, others, gathered, campaign, events, timers, passed, queue, emailed, dispatched, took,
                  global_email_sends, armed, recoveries >>
  /\ left' = Kept(db')

\* The marker appended to execution_path by the branch switch
Marker(yes_node_id) == "SWITCHED_TO_YES:" \o yes_node_id

\* resume_lead_from_condition: the branch switch, lead.save()
resume_from_condition_switch(p) ==
  /\ proc[p].pc = "cf_switch"
  /\ LET pr == proc[p]
         yes_node_id == get_next_node_id(graph, pr.cond, "yes")
         l == [pr.lead EXCEPT !.current_node = yes_node_id,
                              !.execution_path = Append(@, Marker(yes_node_id)),
                              !.completed_tasks = <<>>,
                              !.completed_waits = <<>>,
                              !.status = "running"]
     IN /\ db' = l
        /\ took' = took \cup {"yes"}
        /\ proc' = [proc EXCEPT ![p] = [pr EXCEPT !.pc = "cf_reload", !.lead = l]]
  /\ UNCHANGED << graph, others, gathered, campaign, events, timers, passed, queue, emailed, dispatched,
                  global_email_sends, armed, recoveries >>
  /\ left' = Kept(db')

\* resume_lead_from_condition: the lead is reloaded and the flow run from the yes node
resume_from_condition_reload(p) ==
  /\ proc[p].pc = "cf_reload"
  /\ Becomes(p, flow_iteration(p, EnterFlow(proc[p], db, "cf"), db, global_email_sends,
                               campaign))
  /\ UNCHANGED << graph, others, gathered, events, timers, passed, queue, emailed, dispatched, took, armed,
                  recoveries >>

(***************************************************************************)
(* Event ingress: the tracking endpoint, EventTracker.process_event,       *)
(* resume_condition_task                                                   *)
(***************************************************************************)
Unprocessed(event_type) ==
  {i \in DOMAIN events : ~events[i].processed /\ events[i].event_type = event_type}

\* The tracking requests: track_email_open passes no target, track_link_click the
\* decoded url
Urls == {"url_a", "url_b"}

Requests == {<< "email_open", None >>} \cup {<< "link_click", u >> : u \in Urls}

\* The newest unprocessed event of the type, whatever its target
newest_unprocessed(evs, event_type, target_url) ==
  LET any == {i \in DOMAIN evs : ~evs[i].processed /\ evs[i].event_type = event_type}
  IN IF any = {} THEN 0 ELSE CHOOSE i \in any : \A j \in any : j <= i

\* process_event, the queries sorted by created_at: with a target the exact query first
\* and, when it finds nothing, the query without the target; events[0] of the result,
\* 0 when the result is empty
oldest_unprocessed(evs, event_type, target_url) ==
  LET query == {i \in DOMAIN evs : ~evs[i].processed /\ evs[i].event_type = event_type}
      exact_query == {i \in query : evs[i].target_url = target_url}
      found == IF target_url # None /\ exact_query # {} THEN exact_query ELSE query
  IN IF found = {} THEN 0 ELSE Min(found)

\* track_email_open, track_link_click -> process_event: the query for unprocessed events
process_event_find(p) ==
  /\ p \in IngressPs
  /\ proc[p].pc = "idle"
  /\ \A q \in IngressPs : proc[q].pc = "idle" => p[2] <= q[2]
  /\ emailed
  /\ db.status # "absent"
  /\ \E r \in Requests :
        /\ oldest_unprocessed(events, r[1], r[2]) # 0
        /\ proc' = [proc EXCEPT ![p] =
             [IdleProc EXCEPT !.pc = "in_flip", !.req = r,
                              !.ev = oldest_unprocessed(events, r[1], r[2])]]
  /\ UNCHANGED << graph, others, gathered, campaign, db, events, timers, passed, queue, emailed, dispatched, took,
                  global_email_sends, armed, recoveries, left >>

\* process_event finds no event and returns None; the tracking request then resumes
\* nothing
process_event_none(p) ==
  /\ p \in IngressPs
  /\ proc[p].pc = "idle"
  /\ \A q \in IngressPs : proc[q].pc = "idle" => p[2] <= q[2]
  /\ emailed
  /\ db.status # "absent"
  /\ \E r \in Requests :
        /\ oldest_unprocessed(events, r[1], r[2]) = 0
        /\ proc' = [proc EXCEPT ![p] = [IdleProc EXCEPT !.pc = "tr_none", !.req = r]]
  /\ UNCHANGED << graph, others, gathered, campaign, db, events, timers, passed, queue, emailed, dispatched, took,
                  global_email_sends, armed, recoveries, left >>

\* The tracking request answers (pixel or redirect)
track_return(p) ==
  /\ proc[p].pc = "tr_none"
  /\ proc' = [proc EXCEPT ![p] = IdleProc]
  /\ UNCHANGED << graph, others, gathered, campaign, db, events, timers, passed, queue, emailed, dispatched, took,
                  global_email_sends, armed, recoveries, left >>

\* process_event: event.processed = True, event.save(); resume_condition_task.delay(...);
\* then the direct resume_lead_from_condition call
process_event_flip(p) ==
  /\ proc[p].pc = "in_flip"
  /\ LET e == proc[p].ev IN
       /\ events' = [events EXCEPT ![e] = [@ EXCEPT !.processed = TRUE,
                                                      !.returned = @ + 1]]
       /\ queue' = Append(queue, Task("resume_condition_task", None))
       /\ proc' = [proc EXCEPT ![p] =
            [IdleProc EXCEPT !.pc = "cf_load", !.cond = events[e].condition_node_id,
                             !.phase = "direct"]]
  /\ UNCHANGED << graph, others, gathered, campaign, db, timers, passed, emailed, dispatched, took,
                  global_email_sends, armed, recoveries, left >>

\* The LeadEvent with the largest processed_at: its condition_node_id
recent_event_node ==
  IF HasProcessedEvent
    THEN events[CHOOSE i \in DOMAIN events :
                  events[i].processed
                  /\ \A j \in DOMAIN events : events[j].processed => j <= i].condition_node_id
    ELSE None

\* resume_condition_task(condition_met=True): the most recent processed event, then the
\* lead is loaded
resume_condition_task ==
  /\ proc[WorkerP].pc = "idle"
  /\ queue # <<>>
  /\ Head(queue).task = "resume_condition_task"
  /\ HasProcessedEvent
  /\ queue' = Tail(queue)
  /\ proc' = [proc EXCEPT ![WorkerP] =
       [IdleProc EXCEPT !.pc = IF db.scheduled_task_id # 0 THEN "rc_revoke" ELSE "cf_load",
                        !.lead = IF db.scheduled_task_id # 0 THEN db ELSE NoLead,
                        !.cond = recent_event_node, !.phase = "task"]]
  /\ UNCHANGED << graph, others, gathered, campaign, db, events, timers, passed, emailed, dispatched, took,
                  global_email_sends, armed, recoveries, left >>

\* resume_condition_task: the pending resume_lead_task is revoked, scheduled_task_id
\* cleared, lead.save()
resume_condition_task_revoke(p) ==
  /\ proc[p].pc = "rc_revoke"
  /\ LET l == [proc[p].lead EXCEPT !.scheduled_task_id = 0] IN
       /\ db' = l
       /\ \E o \in RevokeOutcomes(p, proc[p].lead.scheduled_task_id) :
            /\ timers' = o[1]
            /\ proc' = [o[2] EXCEPT ![p] = [@ EXCEPT !.pc = "cf_load", !.lead = NoLead]]
  /\ UNCHANGED << graph, others, gathered, campaign, events, passed, queue, emailed, dispatched, took,
                  global_email_sends, armed, recoveries >>
  /\ left' = Kept(db')

(***************************************************************************)
(* Recovery sweeps: recover_stuck_leads_task (Celery beat, every minute)   *)
(* and the BackgroundTaskManager of the API process                        *)
(***************************************************************************)
\* stuck: paused and updated_at older than five minutes; overdue: paused with a scheduled
\* task whose wait_until has passed.  Time is not measured apart from the deadlines: a
\* paused lead may have been left untouched for five minutes whenever no handler, which
\* lasts seconds, is under way.
StuckOrOverdue(lead, stuck) ==
  /\ lead.status = "paused"
  /\ \/ stuck /\ \A p \in Procs : proc[p].pc = "idle"
     \/ lead.scheduled_task_id # 0 /\ lead.wait_until \in passed

\* recover_stuck_leads_task: the queries, then resume_lead for the lead found
recover_stuck_leads_task ==
  /\ proc[WorkerP].pc = "idle"
  /\ recoveries < MaxRecoveries
  /\ \E stuck \in BOOLEAN : StuckOrOverdue(db, stuck)
  /\ recoveries' = recoveries + 1
  /\ proc' = [proc EXCEPT ![WorkerP] =
                resume_lead_load(WorkerP, Call(0, db.wait_until \in passed))]
  /\ UNCHANGED << graph, others, gathered, campaign, db, events, timers, passed, queue, emailed, dispatched, took,
                  global_email_sends, armed, left >>

\* BackgroundTaskManager._resume_lead: only a paused lead is resumed
background_resume_lead(p) ==
  IF db.status # "paused" THEN EndResumeLead(p)
  ELSE resume_lead_load(p, Call(0, db.wait_until \in passed))

\* _check_and_setup_timeouts: a paused lead with wait_until is resumed if the time has
\* passed, otherwise a timeout task is created unless the lead has one
check_and_setup_timeouts ==
  /\ proc[BgP].pc = "idle"
  /\ db.status = "paused"
  /\ db.wait_until # 0
  /\ IF db.wait_until \in passed
       THEN /\ recoveries < MaxRecoveries
            /\ recoveries' = recoveries + 1
            /\ proc' = [proc EXCEPT ![BgP] = background_resume_lead(BgP)]
            /\ UNCHANGED armed
       ELSE /\ armed = 0
            /\ armed' = db.wait_until
            /\ UNCHANGED << proc, recoveries, left >>
  /\ UNCHANGED << graph, others, gathered, campaign, db, events, timers, passed, queue, emailed, dispatched, took,
                  global_email_sends, left >>

\* _timeout_lead: the sleep ends, _resume_lead
timeout_lead ==
  /\ proc[TmoP].pc = "idle"
  /\ armed # 0
  /\ armed \in passed
  /\ recoveries < MaxRecoveries
  /\ recoveries' = recoveries + 1
  /\ proc' = [proc EXCEPT ![TmoP] = background_resume_lead(TmoP)]
  /\ UNCHANGED << graph, others, gathered, campaign, db, events, timers, passed, queue, emailed, dispatched, took,
                  global_email_sends, armed, left >>

\* _timeout_lead: del self.timeout_tasks[lead_id]
timeout_lead_done(p) ==
  /\ proc[p].pc = "tm_done"
  /\ armed' = 0
  /\ proc' = [proc EXCEPT ![p] = IdleProc]
  /\ UNCHANGED << graph, others, gathered, campaign, db, events, timers, passed, queue, emailed, dispatched, took,
                  global_email_sends, recoveries, left >>

(***************************************************************************)
(* Time                                                                    *)
(***************************************************************************)
\* The wait_until of timer k (the eta of its task) passes
DeadlinePasses(k) ==
  /\ k \in DOMAIN timers
  /\ k \notin passed
  /\ passed' = passed \cup {k}
  /\ UNCHANGED << graph, others, gathered, campaign, db, events, timers, queue, emailed, proc, dispatched, took,
                  global_email_sends, armed, recoveries, left >>

(***************************************************************************)
(* Specifications                                                          *)
(***************************************************************************)
\* start_campaign, execute_lead and the flow loop
FlowSteps ==
  \/ start_campaign
  \/ \E p \in Procs :
       \/ execute_lead_start(p)
       \/ execute_lead_reload(p)
       \/ start_campaign_check(p)
       \/ flow_loop(p)
       \/ flow_after_node(p)
       \/ send_email_node_save(p)
       \/ send_email_node_dispatch(p)
       \/ wait_node_schedule(p)
       \/ condition_node(p)

\* the worker's send and timer tasks, resume_lead
ResumeSteps ==
  \/ send_email_task
  \/ resume_lead_task_after_email
  \/ \E k \in 1..MaxTimers : resume_lead_task_at_eta(k) \/ DeadlinePasses(k)
  \/ \E p \in Procs :
       \/ resume_lead_save_running(p)
       \/ resume_lead_save_current(p)
       \/ resume_lead_save_status(p)
       \/ resume_lead_check(p)

\* resume_lead's exception handler
HandlerSteps ==
  \E p \in Procs : resume_lead_handler_reload(p) \/ resume_lead_handler_fail(p)

\* event ingress and resume_lead_from_condition
EventStepsOf(ps) ==
  \/ resume_condition_task
  \/ \E p \in ps : process_event_find(p)
  \/ \E p \in Procs :
       \/ process_event_flip(p)
       \/ resume_condition_task_revoke(p)
       \/ resume_from_condition_load(p)
       \/ resume_from_condition_revoke(p)
       \/ resume_from_condition_pause(p)
       \/ resume_from_condition_switch(p)
       \/ resume_from_condition_reload(p)

\* the recovery sweeps
RecoverySteps ==
  \/ recover_stuck_leads_task
  \/ check_and_setup_timeouts
  \/ timeout_lead
  \/ \E p \in Procs : timeout_lead_done(p)

\* Campaign run with event ingress, without the recovery sweeps
EventSteps == EventStepsOf(SerialIngressPs)

Next == FlowSteps \/ ResumeSteps \/ HandlerSteps \/ EventSteps

Spec == Init /\ [][Next]_vars

\* Campaign run with the recovery sweeps, no tracking request arriving
NextRecovery == FlowSteps \/ ResumeSteps \/ RecoverySteps

SpecRecovery == InitRecovery /\ [][NextRecovery]_vars

\* A campaign of up to MaxLeads leads at the completion checks: start_campaign has come
\* back from the gather, a resume_lead call has come back from the flow; the leads are in
\* any status, or deleted by the cleanup endpoint
LeadStatuses == {"pending", "running", "paused", "completed", "failed"}

InitCompletion ==
  /\ graph = GraphA
  /\ campaign \in {"running", "completed"}
  /\ db \in {NoLead} \cup {[NewLead(GraphA) EXCEPT !.status = st] : st \in LeadStatuses}
  /\ others \in UNION {[1..n -> LeadStatuses] : n \in 0..(MaxLeads - 1)}
  /\ gathered = DOMAIN others
  /\ events = <<>>
  /\ timers = <<>>
  /\ passed = {}
  /\ queue = <<>>
  /\ emailed = FALSE
  /\ proc = [p \in Procs |-> IF p = ExecP THEN [IdleProc EXCEPT !.pc = "sc_check"]
                              ELSE IF p = BgP THEN [IdleProc EXCEPT !.pc = "rl_check"]
                              ELSE IdleProc]
  /\ dispatched = [n \in ActionNodes |-> 0]
  /\ took = {}
  /\ global_email_sends = {}
  /\ armed = 0
  /\ recoveries = 0
  /\ left = NoLead

NextCompletion ==
  \/ start_campaign_check(ExecP)
  \/ resume_lead_check(BgP)

SpecCompletion == InitCompletion /\ [][NextCompletion]_vars

\* The runs in which up to MaxCallbacks tracking requests are served at the same time.
\* They start where a lead waits for an open and every handler has returned.  On GraphC:
\* the first mail is delivered, the condition node has created its waiting event, the
\* wait node has scheduled its timer and paused the lead.  On GraphF: the open of the
\* first mail has been consumed and has revoked the first timer, the lead went on over
\* bonus to the second condition node, which created its waiting event, and is paused at
\* the second wait node.
WaitingLead ==
  [NewLead(GraphC) EXCEPT !.status = "paused", !.current_node = "wait", !.next_node = "end",
                          !.wait_until = 1, !.scheduled_task_id = 1,
                          !.sent_emails = << "send" >>, !.completed_waits = << "wait" >>]

WaitingAgainLead ==
  [NewLead(GraphF) EXCEPT !.status = "paused", !.current_node = "wait2", !.next_node = "end",
                          !.wait_until = 2, !.scheduled_task_id = 2,
                          !.sent_emails = << "send", "bonus" >>,
                          !.completed_waits = << "wait2" >>,
                          !.execution_path = << "start", "SWITCHED_TO_YES:bonus" >>]

WaitingEvent(n) ==
  [condition_node_id |-> n, event_type |-> "email_open", target_url |-> None,
   processed |-> FALSE, returned |-> 0]

InitIngress ==
  /\ \/ /\ graph = GraphC
        /\ db = WaitingLead
        /\ events = << WaitingEvent("cond") >>
        /\ timers = << "pending" >>
        /\ dispatched = [n \in ActionNodes |-> IF n = "send" THEN 1 ELSE 0]
        /\ took = {}
     \/ /\ graph = GraphF
        /\ db = WaitingAgainLead
        /\ events = << [WaitingEvent("cond") EXCEPT !.processed = TRUE, !.returned = 1],
                        WaitingEvent("cond2") >>
        /\ timers = << "revoked", "pending" >>
        /\ dispatched = [n \in ActionNodes |-> IF n = "follow" THEN 0 ELSE 1]
        /\ took = {"yes"}
  /\ campaign = "running"
  /\ others = <<>>
  /\ gathered = {}
  /\ passed = {}
  /\ queue = <<>>
  /\ emailed = TRUE
  /\ proc = [p \in Procs |-> IdleProc]
  /\ global_email_sends = {}
  /\ armed = 0
  /\ recoveries = 0
  /\ left = db

\* The tracking requests alone: the Celery tasks they queue stay in the queue
NextIngress ==
  \E p \in IngressPs :
     \/ process_event_find(p)
     \/ process_event_flip(p)
     \/ resume_from_condition_load(p)
     \/ resume_from_condition_revoke(p)
     \/ resume_from_condition_pause(p)
     \/ resume_from_condition_switch(p)
     \/ resume_from_condition_reload(p)
     \/ flow_loop(p)
     \/ flow_after_node(p)
     \/ send_email_node_save(p)
     \/ send_email_node_dispatch(p)

SpecIngress == InitIngress /\ [][NextIngress]_vars

\* The stored events a tracking request can meet: up to MaxStored events of the lead of
\* GraphK, paused at the second wait: open events of the first condition node, click
\* events of the second, processed or not.  The requests are served one after the other
\* and stop at the return of process_event.
StoredEvents ==
  {[condition_node_id |-> "cond", event_type |-> "email_open", target_url |-> None,
    processed |-> b, returned |-> 0] : b \in BOOLEAN}
  \cup {[condition_node_id |-> "cond2", event_type |-> "link_click", target_url |-> u,
          processed |-> b, returned |-> 0] : u \in Urls, b \in BOOLEAN}

InitConsume ==
  /\ graph = GraphK
  /\ campaign = "running"
  /\ db = [WaitingAgainLead EXCEPT !.execution_path = << "start" >>]
  /\ others = <<>>
  /\ gathered = {}
  /\ events \in UNION {[1..n -> StoredEvents] : n \in 0..MaxStored}
  /\ timers = << "revoked", "pending" >>
  /\ passed = {}
  /\ queue = <<>>
  /\ emailed = TRUE
  /\ proc = [p \in Procs |-> IdleProc]
  /\ dispatched = [n \in ActionNodes |-> IF n = "follow" THEN 0 ELSE 1]
  /\ took = {"yes"}
  /\ global_email_sends = {}
  /\ armed = 0
  /\ recoveries = 0
  /\ left = db

NextConsume ==
  \E p \in SerialIngressPs :
     \/ process_event_find(p)
     \/ process_event_none(p)
     \/ track_return(p)
     \/ process_event_flip(p)

SpecConsume == InitConsume /\ [][NextConsume]_vars

\* start_campaign on the campaigns as stored
NextValidation == start_campaign

SpecValidation == InitStored /\ [][NextValidation]_vars

\* Campaigns with a node whose configuration the handlers reject: GraphA with the send
\* node without subject or body
GraphBadSend == [GraphA EXCEPT !.nodes[2] = [@ EXCEPT !.config_ok = FALSE]]

\* start -> action(send) -> wait -> end, the wait node without a usable duration or unit
GraphBadWait ==
  [nodes |-> << Node("start", "start"), Node("send", "sendEmail"),
                [Node("wait", "wait") EXCEPT !.config_ok = FALSE], Node("end", "end") >>,
   connections |-> << Conn("start", "send", "default"), Conn("send", "wait", "default"),
                      Conn("wait", "end", "default") >>,
   start_node |-> "start"]

\* GraphC with the bonus node on the yes branch without subject or body
GraphBadBonus == [GraphC EXCEPT !.nodes[4] = [@ EXCEPT !.config_ok = FALSE]]

\* start -> action(send) -> wait -> action(follow), the follow node without a successor;
\* the end node and an action node without subject or body unconnected
GraphBadSpare ==
  [nodes |-> << Node("start", "start"), Node("send", "sendEmail"), Node("wait", "wait"),
                Node("follow", "sendEmail"),
                [Node("bonus", "sendEmail") EXCEPT !.config_ok = FALSE],
                Node("end", "end") >>,
   connections |-> << Conn("start", "send", "default"), Conn("send", "wait", "default"),
                      Conn("wait", "follow", "default") >>,
   start_node |-> "start"]

\* GraphC with the wait node on the no branch without a usable duration or unit
GraphBadTimeout == [GraphC EXCEPT !.nodes[5] = [@ EXCEPT !.config_ok = FALSE]]

ConfigGraphs ==
  {GraphBadSend, GraphBadWait, GraphBadBonus, GraphBadSpare, GraphBadTimeout}

InitConfig == InitWith(ConfigGraphs)

SpecConfig == InitConfig /\ [][Next]_vars

\* A campaign started with MaxLeads contacts: the first lead followed through its flow
\* and its resumes (sent, failed at a rejected node, completed after the last mail, or
\* left at a node without a successor),
\* the further leads through their execute_lead calls of the gather
SiblingGraphs == {GraphA, GraphD, GraphStub, GraphBadSend, GraphBadWait}

InitSiblings == InitWith(SiblingGraphs)

NextSiblings ==
  \/ start_campaign_many
  \/ \E i \in 1..(MaxLeads - 1) : execute_lead_sibling(i) \/ flow_sibling(i)
  \/ send_email_task
  \/ resume_lead_task_after_email
  \/ \E p \in Procs :
       \/ execute_lead_start(p)
       \/ execute_lead_reload(p)
       \/ start_campaign_check(p)
       \/ flow_loop(p)
       \/ flow_after_node(p)
       \/ send_email_node_save(p)
       \/ send_email_node_dispatch(p)
       \/ resume_lead_save_running(p)
       \/ resume_lead_save_current(p)
       \/ resume_lead_save_status(p)
       \/ resume_lead_check(p)

SpecSiblings == InitSiblings /\ [][NextSiblings]_vars

\* The campaign run with the recovery sweeps under fair scheduling: a handler under way
\* goes on, a queued task is run by the worker, a deadline passes and its timer fires,
\* the sweeps keep coming.  No tracking request is assumed to arrive.
InitFair == InitWith(Graphs \cup {GraphE, GraphStub})

Fairness == WF_vars(FlowSteps) /\ WF_vars(ResumeSteps) /\ WF_vars(RecoverySteps)

SpecFair == InitFair /\ [][NextRecovery]_vars /\ Fairness

(***************************************************************************)
(* Properties                                                              *)
(***************************************************************************)
Terminal == {"completed", "failed"}

\* C1: for every action node N, at most one dispatch (send_email_task.delay) is ever
\* requested for the lead and N, in every interleaving of the run, the resumes and the
\* recovery sweeps.
C1_AtMostOneDispatch == \A n \in DOMAIN dispatched : dispatched[n] <= 1

\* C2: the lead never makes both branch transitions of its condition node: the timer
\* resume continuing the no path past the wait, and the event resume switching to the yes
\* path.
C2_OneBranchTransition == ~({"yes", "no"} \subseteq took)

\* C3: once the stored lead is completed or failed, no step changes any of its fields.
C3_TerminalIsImmutable == [][db.status \in Terminal => db' = db]_vars

\* The step starts a resume_lead_task of the worker: a timer task at its eta, or the task
\* queued after a dispatch
TimerResumeEntered ==
  \/ \E k \in DOMAIN timers : timers[k] = "pending" /\ timers'[k] = "fired"
  \/ queue # <<>> /\ Head(queue).task = "resume_lead_task" /\ queue' = Tail(queue)

\* The step is the load of a resume_lead_from_condition call of process p
ConditionResumeEntered(p) == proc[p].pc = "cf_load" /\ proc'[p] # proc[p]

\* The call of p is over after the step
ConditionResumeReturned(p) ==
  \/ proc'[p].pc = "idle"
  \/ proc[p].phase = "direct" /\ proc'[p].pc = "cf_load" /\ proc'[p].phase = "endpoint"

\* The step leaves the lead as stored, requests no dispatch and schedules no timer
NothingDone == db' = db /\ dispatched' = dispatched /\ Len(timers') = Len(timers)

\* C4: resume_lead and resume_lead_from_condition called on a completed or failed lead
\* return without changing the lead, without a dispatch and without a timer.
C4_TerminalResumeIgnored ==
  [][db.status \in Terminal =>
       /\ TimerResumeEntered => NothingDone /\ proc'[WorkerP].pc = "idle"
       /\ \A p \in Procs :
            ConditionResumeEntered(p) => NothingDone /\ ConditionResumeReturned(p)]_vars

\* a resume task and an event resume are about to run on a terminal lead
C4_Witness ==
  /\ db.status \in Terminal
  /\ proc[WorkerP].pc = "idle" /\ queue # <<>> /\ Head(queue).task = "resume_lead_task"
  /\ \E p \in Procs : proc[p].pc = "cf_load"

\* The lead and the node of the pass of the flow loop that process p is about to make
PassLead(p) == IF proc[p].pc = "fl_head" THEN proc[p].lead ELSE db
PassNode(p) == IF proc[p].pc = "fl_head" THEN proc[p].cur ELSE db.current_node

\* The step is a pass of the flow loop that finds its action node in completed_tasks
ReplayedPass(p) ==
  /\ proc[p].pc \in {"fl_head", "el_reload", "cf_reload", "rh_reload"}
  /\ proc'[p] # proc[p]
  /\ PassLead(p).status = "running" /\ db.status = "running"
  /\ TypeOf(graph, PassNode(p)) = "sendEmail"
  /\ PassNode(p) \in Range(PassLead(p).completed_tasks)

\* The step handles the result of a pass that skipped its action node
ReplayedResult(p) ==
  /\ proc[p].pc = "fl_post"
  /\ proc'[p] # proc[p]
  /\ TypeOf(graph, proc[p].cur) = "sendEmail"
  /\ proc[p].cur \in Range(proc[p].lead.completed_tasks)
  /\ proc[p].res.next_node # None

\* the node is skipped: nothing stored, nothing dispatched, result completed with the
\* successor
SkippedPass(p) ==
  /\ db' = db /\ dispatched' = dispatched /\ queue' = queue
  /\ proc'[p].pc = "fl_post"
  /\ proc'[p].res = Result("completed", get_next_node_id(graph, PassNode(p), "default"))

C6_SecondResumeChangesNothing ==
  [][\A p \in Procs :
       proc[p].phase = "replay" /\ proc'[p] # proc[p] =>
         /\ dispatched' = dispatched
         /\ Len(timers') = Len(timers)
         /\ db'.current_node = db.current_node
         /\ db'.completed_tasks = db.completed_tasks
         /\ db'.sent_emails = db.sent_emails
         /\ db'.completed_waits = db.completed_waits]_vars

\* C7: whenever a dispatch is requested for an action node, the stored lead has the node
\* in sent_emails and status paused.
C7_SaveBeforeDispatch ==
  [][\A n \in DOMAIN dispatched :
       dispatched'[n] > dispatched[n] =>
         n \in Range(db.sent_emails) /\ db.status = "paused"]_vars

\* C8: in every stored state of the lead, sent_emails is a subset of completed_tasks.
C8_SentWithinCompleted ==
  db.status # "absent" => Range(db.sent_emails) \subseteq Range(db.completed_tasks)

\* No handler is under way
Quiet == \A p \in Procs : proc[p].pc = "idle"

NoTimerFired == \A k \in DOMAIN timers : timers[k] # "fired"

\* The step runs a timer task after the event was consumed
LateFiring ==
  /\ HasProcessedEvent
  /\ \E k \in DOMAIN timers : timers[k] = "pending" /\ timers'[k] = "fired"

\* C9: on the scenario graph (with the action node the engine requires before the
\* condition), once the opened event is consumed before the timer fired, the bonus action
\* is dispatched at most once, the no branch is not continued, a lead that ends has
\* completed at end by the yes branch, and a late firing of the timer does nothing.
C9_ScenarioC ==
  /\ [](graph = GraphC /\ HasProcessedEvent /\ NoTimerFired =>
          /\ dispatched["bonus"] <= 1
          /\ "no" \notin took
          /\ db.status \in Terminal =>
               db.status = "completed" /\ db.current_node = "end" /\ "yes" \in took)
  /\ [][graph = GraphC /\ LateFiring => NothingDone /\ proc'[WorkerP].pc = "idle"]_vars

\* What scenario B expects of the run
ScenarioBOutcome ==
  /\ dispatched["bonus"] = 0
  /\ "yes" \notin took
  /\ db.status \in Terminal =>
       db.status = "completed" /\ db.current_node = "end" /\ "no" \in took
  /\ Quiet /\ (\E k \in DOMAIN timers : timers[k] = "fired") => db.status = "completed"

ResumedPass(p) ==
  /\ proc[p].pc = "fl_head" /\ proc[p].ret \in {"rl", "rh", "cf"}
  /\ proc'[p] # proc[p]

\* The pass of p as an engine with the given in-process lock set makes it
PassWith(p, locks) == flow_iteration(p, proc[p], db, locks, campaign)

\* C12: every pass of the flow loop made by a resume has the same next transition and
\* the same effect on the stored lead and the campaign as the pass a fresh engine, with
\* empty in-process lock sets, makes from the same persisted state.
C12_RestartEquivalence ==
  [][\A p \in ApiPs :
       ResumedPass(p) =>
         /\ PassWith(p, global_email_sends).pr = PassWith(p, {}).pr
         /\ PassWith(p, global_email_sends).db = PassWith(p, {}).db
         /\ PassWith(p, global_email_sends).campaign = PassWith(p, {}).campaign]_vars

\* The connections that leave node c as its branch b: those of connection_type b, and
\* when there are none those whose id names b
BranchConns(g, c, b) ==
  LET typed == {i \in DOMAIN g.connections :
                  g.connections[i].from_node = c /\ g.connections[i].connection_type = b}
      named == {i \in DOMAIN g.connections :
                  g.connections[i].from_node = c /\ b \in g.connections[i].id_has}
  IN IF typed # {} THEN typed ELSE named

\* The node a lead at c is sent to on branch b
BranchTarget(g, c, b) == g.connections[Min(BranchConns(g, c, b))].to_node

ConditionIds(g) == {g.nodes[i].id : i \in {j \in DOMAIN g.nodes : g.nodes[j].type = "condition"}}

WaitIds(g) == {g.nodes[i].id : i \in {j \in DOMAIN g.nodes : g.nodes[j].type = "wait"}}

Accepted == campaign \in {"running", "completed"}

\* C13: in every graph that start_campaign accepted (the campaign went on to running, or to
\* completed), every condition node has a yes and a no outgoing branch, and the node the
\* no branch leads to is a wait node of the graph.
C13_AcceptedConditions ==
  Accepted =>
    \A c \in ConditionIds(graph) :
       /\ BranchConns(graph, c, "yes") # {}
       /\ BranchConns(graph, c, "no") # {}
       /\ BranchTarget(graph, c, "no") \in WaitIds(graph)

\* An accepted campaign whose condition node has its no branch named only by the id of
\* the connection, and one with two no connections
C13_Witness ==
  /\ campaign = "running"
  /\ \E c \in ConditionIds(graph) :
        \A i \in BranchConns(graph, c, "no") : graph.connections[i].connection_type # "no"

\* The nodes reached from the nodes of S along the connections
RECURSIVE ReachFrom(_, _)
ReachFrom(g, S) ==
  LET T == S \cup {g.connections[i].to_node :
                     i \in {j \in DOMAIN g.connections : g.connections[j].from_node \in S}}
  IN IF T = S THEN S ELSE ReachFrom(g, T)

Successors(g, n) ==
  {g.connections[i].to_node : i \in {j \in DOMAIN g.connections : g.connections[j].from_node = n}}

CycleFromStart(g) ==
  /\ g.start_node # None
  /\ \E n \in ReachFrom(g, {g.start_node}) :
        Successors(g, n) # {} /\ n \in ReachFrom(g, Successors(g, n))

DanglingConnection(g) ==
  \E i \in DOMAIN g.connections :
     g.connections[i].from_node \notin NodeIds(g) \/ g.connections[i].to_node \notin NodeIds(g)

C15_FailedStartNoLead == campaign = "failed" => db = NoLead

\* A start that failed on the contact list, after the graph had passed the validation
C15_Witness ==
  /\ campaign = "failed"
  /\ db = NoLead
  /\ ~detect_loops(graph)
  /\ validate_condition_nodes(graph)

AllLeads == (IF db = NoLead THEN <<>> ELSE << db.status >>) \o others

NoActiveLead == \A i \in DOMAIN AllLeads : AllLeads[i] \notin {"pending", "running", "paused"}

CompletionCheck ==
  \E p \in ApiPs : \/ (proc[p].pc = "sc_check" /\ proc'[p].pc # "sc_check")
                    \/ (proc[p].pc = "rl_check" /\ proc'[p].pc # "rl_check")

\* C16: a completion check leaves the campaign completed when the campaign has at least
\* one lead and none of its leads is pending, running or paused, leaves the campaign status
\* as it was in every other case, and a second check on what it left changes nothing.
C16_CompletionCheck ==
  [][CompletionCheck =>
       /\ campaign' = IF Len(AllLeads) > 0 /\ NoActiveLead THEN "completed" ELSE campaign
       /\ check_campaign_completion(campaign', db') = campaign']_vars

\* Both checks have run on a campaign of three finished leads
C16_Witness ==
  /\ campaign = "completed"
  /\ Len(AllLeads) = MaxLeads
  /\ NoActiveLead
  /\ proc[ExecP].pc = "idle"
  /\ proc[BgP].pc = "idle"

\* C17: while the campaign is completed none of its leads is pending, running or paused.
C17_CompletedHasNoActiveLead == campaign = "completed" => NoActiveLead

\* Nothing is left to run: no handler is under way, no task is queued, no timer is pending
Drained ==
  /\ Quiet
  /\ queue = <<>>
  /\ \A k \in DOMAIN timers : timers[k] # "pending"

\* C18: once every lead of the campaign is terminal and nothing is left to run, the
\* campaign is completed (a completion check has followed the last terminal transition).
C18_CheckedAfterTerminal ==
  (Drained /\ Len(AllLeads) > 0 /\ NoActiveLead) => campaign = "completed"

\* C19: no waiting event is returned as consumed by more than one process_event call (each
\* call that returns an event is the one that flipped it from unprocessed to processed).
C19_ConsumedOnce == \A i \in DOMAIN events : events[i].returned <= 1

\* C20: the tracking callbacks of a lead all carry the same lead, campaign, kind and
\* target; once one of them has consumed a waiting event, no later delivery consumes a
\* further one.
C20_ReplayConsumesNothing ==
  Cardinality({i \in DOMAIN events : events[i].returned > 0}) <= 1

\* The event a request is to consume: the oldest unprocessed event of its kind with
\* exactly its target when the request has a target and there is such an event, else the
\* oldest unprocessed event of its kind; 0 when there is none
Matching(kind, target) ==
  {i \in DOMAIN events : /\ ~events[i].processed
                          /\ events[i].event_type = kind
                          /\ events[i].target_url = target}

OfKind(kind) == UNION {Matching(kind, t) : t \in Urls \cup {None}}

ToConsume(r) ==
  IF r[2] # None /\ Matching(r[1], r[2]) # {} THEN Min(Matching(r[1], r[2]))
  ELSE IF OfKind(r[1]) # {} THEN Min(OfKind(r[1]))
  ELSE 0

\* C21: a process_event call that goes on to consume has picked the oldest unprocessed
\* event with exactly its target, or without such an event the oldest unprocessed event
\* of its kind, and its save changes that event alone; a call that returns none met no
\* unprocessed event of its kind, changes no event and starts no resume.
C21_ConsumesOldestMatch ==
  [][\A p \in IngressPs :
       /\ (proc[p].pc = "idle" /\ proc'[p].pc = "in_flip")
            => /\ proc'[p].ev = ToConsume(proc'[p].req)
               /\ proc'[p].ev # 0
               /\ events' = events
       /\ (proc[p].pc = "in_flip" /\ proc'[p].pc # "in_flip")
            => /\ events'[proc[p].ev].processed
               /\ \A i \in DOMAIN events : i # proc[p].ev => events'[i] = events[i]
       /\ (proc[p].pc = "idle" /\ proc'[p].pc = "tr_none")
            => /\ OfKind(proc'[p].req[1]) = {}
               /\ events' = events /\ queue' = queue /\ db' = db
       /\ (proc[p].pc = "tr_none" /\ proc'[p].pc # "tr_none")
            => (proc'[p].pc = "idle" /\ events' = events /\ queue' = queue /\ db' = db)]_vars

\* A click on url_b has consumed the second event while an older unprocessed click event
\* for url_a is left
C21_Witness ==
  /\ Len(events) = 3
  /\ events[1].event_type = "link_click" /\ events[1].target_url = "url_a"
  /\ ~events[1].processed
  /\ events[2].target_url = "url_b" /\ events[2].returned = 1
  /\ events[3].event_type = "email_open" /\ events[3].processed

\* The nodes of the campaign whose configuration the handlers reject
BadNodes == {graph.nodes[i].id : i \in {j \in DOMAIN graph.nodes : ~graph.nodes[j].config_ok}}

\* Process p holds the failed result of a handler that rejected its node's configuration
ConfigFailure(p) ==
  /\ proc[p].pc = "fl_post"
  /\ proc[p].res.status = "failed"
  /\ proc[p].cur \in BadNodes

\* Nothing has been scheduled, dispatched or recorded for a rejected node, and the
\* campaign of an enrolled lead has not failed
NothingForBadNodes ==
  /\ \A n \in BadNodes \cap ActionNodes : dispatched[n] = 0
  /\ \A p \in Procs : proc[p].pc \in {"se_save", "se_dispatch", "w_sched"}
                          => proc[p].cur \notin BadNodes
  /\ \A i \in DOMAIN queue : queue[i].node_id \notin BadNodes
  /\ db.status # "absent"
       => /\ Range(db.sent_emails) \cap BadNodes = {}
          /\ Range(db.completed_waits) \cap BadNodes = {}
          /\ campaign # "failed"

\* C23: a node whose configuration is rejected fails the lead alone: the flow's next step
\* stores the lead as failed with an error message, no timer is scheduled and no dispatch
\* requested for the node, and the campaign does not become failed.
C23_ConfigErrorFailsLead ==
  [][/\ NothingForBadNodes'
     /\ \A p \in Procs :
          (ConfigFailure(p) /\ proc'[p] # proc[p])
            => /\ db'.status = "failed"
               /\ db'.error_message # None
               /\ campaign' = campaign
               /\ timers' = timers
               /\ queue' = queue
               /\ dispatched' = dispatched]_vars

\* The lead has failed at the rejected wait node after its first mail was sent
C23_Witness ==
  /\ graph = GraphBadWait
  /\ db.status = "failed" /\ db.error_message # None
  /\ db.current_node = "wait"
  /\ db.sent_emails = << "send" >>
  /\ timers = <<>>
  /\ campaign # "failed"

\* start_campaign has returned for a campaign with enrolled leads
StartReturned ==
  /\ campaign \in {"running", "completed"}
  /\ db.status # "absent"
  /\ proc[ExecP].pc = "idle"

FlowPcs == {"fl_head", "fl_post", "se_save", "se_dispatch", "w_sched", "c_check"}

\* C24: when a process returns from _execute_flow_from_current_node, which it entered
\* with a running lead, the stored status of the lead is paused, completed or failed.
C24_RunLeavesNotRunning ==
  [][\A p \in Procs :
       (proc[p].pc \in FlowPcs /\ proc'[p].pc \notin FlowPcs) => db'.status # "running"]_vars

\* A bound of the model has cut the run short
BoundReached ==
  \/ recoveries = MaxRecoveries
  \/ Len(timers) = MaxTimers
  \/ \E n \in DOMAIN dispatched : dispatched[n] = MaxDispatch

\* C25: under fair scheduling of the handlers, the worker's tasks, the timers and the
\* recovery sweeps, an enrolled lead eventually is completed or failed.
C25_LeadTerminates ==
  (db.status # "absent") ~> (db.status \in Terminal \/ BoundReached)

\* The status changes of a lead's life cycle
StatusChanges ==
  { << "pending", "running" >>, << "running", "paused" >>, << "running", "completed" >>,
    << "running", "failed" >>, << "paused", "running" >> }

\* C26: every change of the stored status of an enrolled lead is pending -> running,
\* running -> paused, completed or failed, or paused -> running.
C26_StatusChanges ==
  [][(db.status # "absent" /\ db'.status # db.status)
        => << db.status, db'.status >> \in StatusChanges]_vars

\* The stored lead is paused at a wait node whose deadline has not passed
WaitingForDeadline ==
  /\ db.status = "paused"
  /\ TypeOf(graph, db.current_node) = "wait"
  /\ db.wait_until # 0
  /\ db.wait_until \notin passed

\* C27: a lead paused at a wait node before its deadline is set running again only by an
\* event that redirects it to another node, and no recovery sweep starts a resume_lead
\* call for it.
C27_WaitHoldsUntilDeadline ==
  [][WaitingForDeadline
       => /\ db'.status = "running" => db'.current_node # db.current_node
          /\ recoveries' = recoveries]_vars

\* C28: a lead paused at its first action node, no mail delivered so far (the dispatch
\* still queued, or failed), stays paused at that node: it is not set running again and
\* not moved to another node.
C28_PausedUntilDelivered ==
  [][(db.status = "paused" /\ db.current_node = "send" /\ ~emailed)
       => (db'.status = "paused" /\ db'.current_node = "send")]_vars

\* The stored lead is paused at the wait node that scheduled timer k
WaitsOn(k) ==
  /\ db.status = "paused"
  /\ TypeOf(graph, db.current_node) = "wait"
  /\ db.scheduled_task_id = k

\* C29: the resume_lead_task of a timer that finds the lead anywhere but paused at the
\* wait node that scheduled it returns at once: the worker is idle again and the lead,
\* the queue and the timers of other waits are as they were.
C29_StaleResumeIsNoOp ==
  [][\A k \in DOMAIN timers :
       (timers[k] = "pending" /\ timers'[k] = "fired" /\ ~WaitsOn(k))
         => (proc'[WorkerP].pc = "idle" /\ db' = db /\ queue' = queue)]_vars

\* C30: the step of _execute_wait_node that schedules leaves the stored lead paused,
\* next_node the default successor of the wait node, wait_until the deadline of the
\* timer, scheduled_task_id the handle of the one timer the step has added, and the wait
\* node in completed_waits.
C30_WaitNodeEffect ==
  [][\A p \in Procs :
       (proc[p].pc = "w_sched" /\ proc'[p].pc # "w_sched")
         => LET w == proc[p].cur
                k == Len(timers')
            IN /\ db'.status = "paused"
               /\ db'.next_node = get_next_node_id(graph, w, "default")
               /\ db'.next_node # None
               /\ Len(timers') = Len(timers) + 1
               /\ SubSeq(timers', 1, Len(timers)) = timers
               /\ timers'[k] = "pending"
               /\ db'.wait_until = k
               /\ db'.scheduled_task_id = k
               /\ w \in Range(db'.completed_waits)
               /\ queue' = queue]_vars

\* The wait node of the no branch has paused the lead with its timer pending
C30_Witness ==
  /\ \E p \in Procs : proc[p].pc = "fl_post" /\ proc[p].cur = "wait"
                        /\ proc[p].res.status = "paused"
  /\ db.status = "paused" /\ db.current_node = "wait"
  /\ db.next_node = "end"
  /\ db.scheduled_task_id = Len(timers)
  /\ timers[db.scheduled_task_id] = "pending"
  /\ "wait" \in Range(db.completed_waits)

\* C31: the stored lead carries a next_node only while it is paused; stated for the
\* states in which no handler is under way (between the saves of a resume the status is
\* running before next_node is cleared).
C31_NextNodeOnlyWhilePaused ==
  (Quiet /\ db.status \in {"pending", "running", "completed", "failed"})
    => db.next_node = None

\* The yes successor of the condition node process p resumes from
YesOf(p) == get_next_node_id(graph, proc[p].cond, "yes")

\* C32: the branch switch of resume_lead_from_condition stores the lead running at the
\* yes successor of the condition with the marker appended to its execution_path and
\* without a timer handle, no handle it overwrites belonging to a timer still pending;
\* the flow it then runs starts from the yes successor.
C32_EventResumeEffect ==
  [][\A p \in Procs :
       /\ (proc[p].pc = "cf_switch" /\ proc'[p].pc # "cf_switch")
            => /\ db'.current_node = YesOf(p)
               /\ db'.execution_path = Append(proc[p].lead.execution_path, Marker(YesOf(p)))
               /\ db'.status = "running"
               /\ db'.scheduled_task_id = 0
               /\ db.scheduled_task_id # 0 => timers[db.scheduled_task_id] # "pending"
               /\ proc'[p].pc = "cf_reload"
       /\ (proc[p].pc = "cf_reload" /\ proc'[p].pc # "cf_reload")
            => db.current_node = YesOf(p)]_vars

\* The nodes of the yes branch process p switches the lead to
YesSubgraph(p) == ReachFrom(graph, {YesOf(p)})

\* C33: the branch switch of resume_lead_from_condition removes from completed_tasks and
\* completed_waits only nodes of the yes branch: an entry of a node outside it that the
\* stored lead had before the switch is still there after it.
C33_LedgerKeptOutsideYes ==
  [][\A p \in Procs :
       (proc[p].pc = "cf_switch" /\ proc'[p].pc # "cf_switch")
         => /\ Range(db.completed_tasks) \ YesSubgraph(p) \subseteq Range(db'.completed_tasks)
            /\ Range(db.completed_waits) \ YesSubgraph(p) \subseteq Range(db'.completed_waits)]_vars

\* A consumed event of the kind condition node n waits for is stored
AlreadyOccurred(n) ==
  \E i \in DOMAIN events : events[i].processed /\ events[i].event_type = EventType(graph, n)

\* C34: a condition node executed while a consumed event of its kind is stored completes
\* with the yes successor and creates no waiting event.
C34_OccurredTakesYes ==
  [][\A p \in Procs :
       (proc[p].pc = "c_check" /\ proc'[p].pc # "c_check" /\ AlreadyOccurred(proc[p].cur))
         => /\ proc'[p].res = Result("completed", get_next_node_id(graph, proc[p].cur, "yes"))
            /\ events' = events]_vars

\* The open of the first mail arrives while the lead of GraphF waits on the no branch
\* of the first condition node; the request runs the lead on from the yes branch.
WaitingFirstLead ==
  [NewLead(GraphF) EXCEPT !.status = "paused", !.current_node = "wait", !.next_node = "end",
                          !.wait_until = 1, !.scheduled_task_id = 1,
                          !.sent_emails = << "send" >>, !.completed_waits = << "wait" >>]

InitTwice ==
  /\ graph = GraphF
  /\ campaign = "running"
  /\ db = WaitingFirstLead
  /\ others = <<>>
  /\ gathered = {}
  /\ events = << WaitingEvent("cond") >>
  /\ timers = << "pending" >>
  /\ passed = {}
  /\ queue = <<>>
  /\ emailed = TRUE
  /\ proc = [p \in Procs |-> IdleProc]
  /\ dispatched = [n \in ActionNodes |-> IF n = "send" THEN 1 ELSE 0]
  /\ took = {}
  /\ global_email_sends = {}
  /\ armed = 0
  /\ recoveries = 0
  /\ left = db

\* The tracking requests and the flows they run, up to the return of the second condition
\* node: the wait node on its no branch is not entered here
NextTwice ==
  \/ NextIngress
  \/ \E p \in IngressPs : condition_node(p)

SpecTwice == InitTwice /\ [][NextTwice]_vars

\* The unprocessed waiting events of condition node n
WaitingFor(n) ==
  {i \in DOMAIN events : ~events[i].processed /\ events[i].condition_node_id = n}

\* C35: the lead has at most one unprocessed waiting event for any condition node.
C35_OneWaitingEventPerNode ==
  \A i \in DOMAIN events : Cardinality(WaitingFor(events[i].condition_node_id)) <= 1

\* The wait node on the no branch of condition node c, the nodes after it
NoWait(c) == get_next_node_id(graph, c, "no")
Beyond(c) == ReachFrom(graph, {get_next_node_id(graph, NoWait(c), "default")})

\* Lead l has continued beyond the wait on the no branch of condition node c
MovedPast(c, l) ==
  /\ NoWait(c) # None
  /\ l.current_node \in Beyond(c) \ {None, c, NoWait(c)}

\* C36: an event resume for a condition node the lead has moved past (the lead is beyond
\* the wait of the no branch) does not put the lead on the yes branch of that node.
C36_PassedConditionNotResumed ==
  [][\A p \in Procs :
       (proc[p].pc = "cf_switch" /\ proc'[p].pc # "cf_switch"
          /\ MovedPast(proc[p].cond, proc[p].lead) /\ MovedPast(proc[p].cond, db))
         => db'.current_node # YesOf(p)]_vars


\* C37: the save the flow loop makes after a node handler has returned keeps every node
\* recorded in the stored completed_tasks, the node just executed included.
C37_MarkSurvivesLoopSave ==
  [][\A p \in Procs :
       (proc[p].pc = "fl_post" /\ proc'[p].pc # "fl_post")
         => Range(db.completed_tasks) \subseteq Range(db'.completed_tasks)]_vars


\* The stored execution_path holds a marker written by a branch switch
Switched ==
  \E i \in DOMAIN db.execution_path :
     db.execution_path[i] \in {Marker(n) : n \in NodeIds(graph) \cup {None}}

\* The worker takes up a resume_lead_task: the one queued by send_email_task, or the one
\* a wait node scheduled
ResumeLeadTaskBegins ==
  \/ queue # <<>> /\ Head(queue).task = "resume_lead_task" /\ queue' = Tail(queue)
  \/ \E k \in DOMAIN timers : timers[k] = "pending" /\ timers'[k] = "fired"

\* C38: resume_lead_task returns without calling resume_lead for a lead whose
\* execution_path holds a branch-switch marker.
C38_SwitchedLeadNotResumed ==
  [][(proc[WorkerP].pc = "idle" /\ Switched /\ ResumeLeadTaskBegins)
       => proc'[WorkerP].pc = "idle"]_vars


\* The branch-switch markers in the stored execution_path
Markers ==
  {i \in DOMAIN db.execution_path :
     db.execution_path[i] \in {Marker(n) : n \in NodeIds(graph) \cup {None}}}

\* The number of times process_event has consumed an event
RECURSIVE Consumptions(_)
Consumptions(evs) ==
  IF evs = <<>> THEN 0 ELSE Head(evs).returned + Consumptions(Tail(evs))

\* C39: execution_path holds at most one branch-switch marker per consumed event.
C39_OneSwitchPerEvent == Cardinality(Markers) <= Consumptions(events)


(***************************************************************************)
(* Condition nodes and the mail they track                                 *)
(***************************************************************************)
\* Campaign definitions with two condition nodes: the send node with or without a link
\* that has text and url, each condition of type open or click; the first condition
\* entered from the send node, from start with the send node unconnected, or from start
\* with the send node connected to it off the path; the second condition entered from the
\* yes branch of the first, from the wait node, or from nowhere.
ConditionTypes == {"open", "click"}

TrackedNodes(l, t1, t2) ==
  << Node("start", "start"), [Node("send", "sendEmail") EXCEPT !.links = l],
     [Node("cond", "condition") EXCEPT !.conditionType = t1],
     [Node("cond2", "condition") EXCEPT !.conditionType = t2],
     Node("wait", "wait"), Node("wait2", "wait"), Node("end", "end") >>

HeadConns ==
  { << Conn("start", "send", "default"), Conn("send", "cond", "default") >>,
    << Conn("start", "cond", "default") >>,
    << Conn("start", "cond", "default"), Conn("send", "cond", "default") >> }

MidConns ==
  { << Conn("cond", "cond2", "yes"), Conn("wait", "end", "default") >>,
    << Conn("cond", "end", "yes"), Conn("wait", "cond2", "default") >>,
    << Conn("cond", "end", "yes"), Conn("wait", "end", "default") >> }

TrackedGraphs ==
  { [nodes |-> TrackedNodes(l, t1, t2),
     connections |-> h \o m \o << Conn("cond", "wait", "no"), Conn("cond2", "end", "yes"),
                                   Conn("cond2", "wait2", "no"),
                                   Conn("wait2", "end", "default") >>,
     start_node |-> "start"] :
      l \in BOOLEAN, t1 \in ConditionTypes, t2 \in ConditionTypes,
      h \in HeadConns, m \in MidConns }

\* start_campaign on these campaigns
InitTracked == InitWith(TrackedGraphs)
SpecTracked == InitTracked /\ [][NextValidation]_vars

\* The condition nodes from which c is entered through condition nodes only, c included
RECURSIVE ConditionChain(_, _)
ConditionChain(g, S) ==
  LET T == S \cup {g.connections[i].from_node :
                     i \in {j \in DOMAIN g.connections :
                              /\ g.connections[j].to_node \in S
                              /\ TypeOf(g, g.connections[j].from_node) = "condition"}}
  IN IF T = S THEN S ELSE ConditionChain(g, T)

\* The sendEmail nodes that precede condition node c, directly or through condition nodes
PrecedingMails(g, c) ==
  {g.connections[i].from_node :
     i \in {j \in DOMAIN g.connections :
              /\ g.connections[j].to_node \in ConditionChain(g, {c})
              /\ TypeOf(g, g.connections[j].from_node) = "sendEmail"}}

\* C40: in every graph that start_campaign accepted, every condition node is preceded by
\* a sendEmail node, directly or through a chain of condition nodes; for a click condition
\* a preceding sendEmail node has a link with text and url; and the search that
\* _execute_condition_node makes for the preceding mail finds one.
C40_AcceptedConditionsFollowMail ==
  Accepted =>
    \A c \in ConditionIds(graph) :
       /\ PrecedingMails(graph, c) # {}
       /\ NodeOf(graph, c).conditionType = "click"
             => \E m \in PrecedingMails(graph, c) : NodeOf(graph, m).links
       /\ find_preceding_email_node(graph, c, {}) # None

\* An accepted campaign whose second condition, of type click, is reached from the mail
\* through the first condition
C40_Witness ==
  /\ campaign = "running"
  /\ "send" \notin {graph.connections[i].from_node :
                       i \in {j \in DOMAIN graph.connections :
                                graph.connections[j].to_node = "cond2"}}
  /\ \E c \in ConditionIds(graph) :
        /\ c = "cond2"
        /\ NodeOf(graph, c).conditionType = "click"
        /\ PrecedingMails(graph, c) = {"send"}

====
